---- MODULE Spec2Model ----
(***************************************************************************)
(* Model of creamas' multi-process orchestration layer (creamas/mp.py) and *)
(* of the spirograph example built on it: the candidate registry of the    *)
(* MultiEnvironment, the validation fan-out, and the voting engine         *)
(* (perform_voting with _vote_IRV, _vote_mean, best, least_worst, random). *)
(*                                                                         *)
(* Candidates are artifact objects; they are named by the numbers          *)
(* 1..NumCands.  A (candidate, score) tuple is the sequence <<c, s>>.      *)
(* A mean is kept as the exact fraction <<sum, count>>.                    *)
(***************************************************************************)
EXTENDS Integers, Sequences, FiniteSets, TLC

\* ------------------------------------------------------------------ bounds
MaxRegistered == 4 \* agents registered in one environment
MaxBatch == 2      \* the n of spawn_n is 0..MaxBatch
MaxList == 3       \* length of the list an agent validates
MaxEval == 2       \* evaluations and thresholds are 0..MaxEval
MaxLength == 2     \* the length of an STMemory is 0..MaxLength
MaxLearns == 4     \* calls of learn and train_cycle made
NumItems == 3      \* artifacts that can be learned
MaxReports == 2    \* messages that reach a host manager
MaxTimeout == 1    \* the timeout of wait_slaves is 0..MaxTimeout seconds
NumCands == 3      \* artifact objects that exist
MaxVoters == 3     \* ballots in a ranked (IRV) vote set
MaxScorers == 2    \* vote lists in a scored vote set
MaxScore == 2      \* scores are 1..MaxScore
NumWorkers == 2    \* slave environments (manager addresses)
NumGathered == 2   \* artifact objects that exist in a validation round
NumSlaves == 3     \* slave environments of a spawn, trigger or clear
MaxSpawns == 4     \* spawn calls made
MaxAgents == 2     \* agents a slave holds at the start
MaxClears == 2     \* calls of clear_candidates made
NumArtifacts == 2  \* artifact objects that can be published
MaxArtifacts == 2  \* length of the artifact registry
MaxAdded == 2      \* length of the list add_artifacts is called with
MaxClock == MaxTimeout + 1   \* the seconds of a wait_slaves call that are told apart
TIMEOUT == 5                 \* TIMEOUT = 5
MaxAccepted == NumCands      \* perform_voting's accepted is 1..MaxAccepted

Cands == 1..NumCands
Scores == 1..MaxScore
Ks == 1..MaxAccepted
Workers == 1..NumWorkers   \* the places in MultiEnvironment._manager_addrs
ValCands == 1..NumGathered
Slaves == 1..NumSlaves     \* the places in MultiEnvironment._manager_addrs
Artifacts == 1..NumArtifacts
SpawnCalls == {"a", "b"}   \* two calls of spawn can be under way at once

VARIABLES
    candidates,   \* MultiEnvironment._candidates (a list)
    votes,        \* the vote set _gather_votes returned: a list of vote lists
    method,       \* perform_voting's method argument, "none" before the call
    accepted,     \* perform_voting's accepted argument
    best,         \* what perform_voting returned: [status, value, iters]
    asked,        \* the managers _gather_votes sent get_votes to
    veto,         \* veto[w]: the candidates the agents of slave w reject
    vpc,          \* where the validate_candidates generator stands
    startSet,     \* the candidates at the call of validate_candidates
    valid_candidates,   \* the local valid_candidates of validate_candidates
    req,          \* req[w]: the list sent to slave w, NoMsg before
    reply,        \* reply[w]: the list slave w answered, NoMsg before
    ri,           \* the place in ret of "for r in ret"
    nagents,      \* nagents[w]: the agents of slave w, its manager not counted
    spc,          \* spc[s]: where the spawn call s stands
    seen,         \* seen[s]: the agent counts _get_smallest_env has got
    ns,           \* ns[s]: the local ns of _get_smallest_env
    saddr,        \* saddr[s]: the local saddr, then spawn's addr
    placed,       \* placed[s]: the slave whose manager spawned the agent
    nspawn,       \* the spawn calls made
    overlap,      \* a spawn call started while another one was running
    explicit,     \* a spawn call was given an address
    tpc,          \* where the trigger_all coroutine stands
    ttask,        \* ttask[w]: the state of the task _trigger_slave(w)
    trep,         \* trep[w]: what the manager of slave w returned, NoResult before
    arrived,      \* the slaves in the order their answers came
    tresult,      \* what trigger_all returned, NoResult before
    terr,         \* the slave whose error trigger_all raised, 0 for none
    wcands,       \* wcands[w]: the candidate list of slave w's environment
    cpc,          \* where clear_candidates stands
    ctask,        \* ctask[w]: the state of the task _clear_candidates(w)
    nclears,      \* the calls of clear_candidates made
    clearStart,   \* the candidates at the last call of clear_candidates
    gpc,          \* where gather_candidates stands
    gheld,        \* the lists the slaves have answered gather_candidates with
    artifacts,    \* MultiEnvironment._artifacts (a list)
    dpc,          \* where the _destroy coroutine stands
    dlog,         \* what was done for the shutdown, in order: <<what, slave, agent>>
    drets,        \* the local rets of _destroy_slaves
    dreply,       \* what the slave being stopped has answered, NoReply before
    dresult,      \* what destroy returned, NoSummaries before
    pool,         \* the state of MultiEnvironment._pool
    stop_received,\* the slaves whose manager has set stop_received
    sstat,        \* sstat[w]: how slave w answers a connection and is_ready
    own,          \* <<self.env.is_ready(), self.check_ready()>> of the master
    ipc,          \* where MultiEnvironment.is_ready stands, then its result
    iseen,        \* what the slaves asked by is_ready have answered so far
    wpc,          \* where wait_slaves stands, then its result
    wargs,        \* <<timeout, check_ready>> of the wait_slaves call
    online,       \* the local list online of wait_slaves
    wi,           \* the place of "for addr in self.addrs" in wait_slaves
    clock,        \* time.time() - t, in seconds
    kpc,          \* where a call to another process stands
    kop,          \* the operation the call belongs to, "none" before
    ktarget,      \* how the called manager behaves during the call
    kwait,        \* the seconds the call has tried to connect
    host_manager, \* host_manager[w]: EnvManager._host_manager of slave w, "None" at first
    bound,        \* bound[w]: the first address set_host_manager of slave w was given
    hostUp,       \* the addresses at which a manager can be reached
    rcall,        \* the last report call: <<msg, host, host reachable, messages delivered before>>
    rres,         \* how the last report call ended
    delivered,    \* the messages that reached handle of a manager, in order: <<addr, msg>>
    registered,   \* registered[n]: the name of the agent at address .../n of one environment
    sres,         \* how the last CreativeAgent.__init__ ended
    sbefore,      \* registered as it was before the last CreativeAgent.__init__
    startpc,      \* startpc[w]: where the start coroutine of slave w stands
    stopped,      \* stopped[w]: manager.stop_received of slave w has its result
    interrupted,  \* interrupted[w]: a KeyboardInterrupt was raised in start
    destroyed,    \* destroyed[w]: the calls of env.destroy start has made
    stopres,      \* stopres[w]: how the last call of the manager's stop ended
    bpc,          \* where a spawn_n call stands, then how it ended
    bargs,        \* <<n, name>> of the spawn_n call, name NoName for none given
    brets,        \* the local rets of EnvManager.spawn_n: the addresses spawn returned
    bbefore,      \* the agents of the environment when spawn_n took the request
    bforeign,     \* the agents other requests have spawned during the spawn_n call
    breq,         \* the requests the caller has sent to the manager for the call
    acands,       \* the list SpiroAgent.validate_candidates is given: acands[i] is the creator of its i-th candidate
    aevals,       \* aevals[i]: what self.evaluate returns for the i-th candidate
    aargs,        \* <<self._novelty_threshold, self.jump, self.added_last>> of the agent
    avalid,       \* the list validate_candidates returned, as places of acands; NotAsked before
    aspiro,       \* self.spiro_args: 0 for the agent's own, i for the args of the i-th candidate
    mem_length,   \* STMemory.length
    mem_artifacts,\* STMemory.artifacts (a list)
    mem_before,   \* STMemory.artifacts as it was before the last learn or train_cycle
    mem_item,     \* the artifact of the last learn or train_cycle, 0 before
    mem_calls,    \* the calls of learn and train_cycle made
    lcall,        \* the last call a slave's manager took for its candidates: <<operation, slave, list passed>>
    lbefore,      \* the candidate list of that slave before the call
    lret,         \* what the call returned
    rpc,          \* where vote_and_save_info stands, then how it ended
    rbefore,      \* the artifact registry at the call of vote_and_save_info
    rglobal       \* the master's candidate list perform_voting of the round worked on

voteVars == <<votes, method, accepted, best, asked>>

valVars == <<veto, vpc, startSet, valid_candidates, req, reply, ri>>

spawnVars == <<nagents, spc, seen, ns, saddr, placed, nspawn, overlap, explicit>>

trigVars == <<tpc, ttask, trep, arrived, tresult, terr>>

clearVars == <<cpc, ctask, nclears, clearStart>>

gatherVars == <<gpc, gheld>>

destroyVars == <<dpc, dlog, drets, dreply, dresult, pool, stop_received>>

readyVars == <<sstat, own, ipc, iseen>>

waitVars == <<wpc, wargs, online, wi, clock>>

callVars == <<kpc, kop, ktarget, kwait>>

hostVars == <<host_manager, bound, hostUp, rcall, rres, delivered>>

nameVars == <<registered, sres, sbefore>>

startVars == <<startpc, stopped, interrupted, destroyed, stopres>>

batchVars == <<bpc, bargs, brets, bbefore, bforeign, breq>>

vetoVars == <<acands, aevals, aargs, avalid, aspiro>>

memVars == <<mem_length, mem_artifacts, mem_before, mem_item, mem_calls>>

localVars == <<lcall, lbefore, lret>>

roundVars == <<rpc, rbefore, rglobal>>

\* start-up, shutdown and the links between the managers
otherVars == <<destroyVars, readyVars, waitVars, callVars, hostVars, nameVars, startVars, batchVars, vetoVars, memVars, localVars, roundVars>>

\* what voting and validation leave alone
restVars == <<spawnVars, trigVars, wcands, clearVars, gatherVars, artifacts, otherVars>>

\* what spawn leaves alone
notSpawnVars ==
    <<candidates, voteVars, valVars, trigVars, wcands, clearVars, gatherVars, artifacts, otherVars>>

\* what trigger_all leaves alone
notTrigVars ==
    <<candidates, voteVars, valVars, spawnVars, wcands, clearVars, gatherVars, artifacts, otherVars>>

\* what clear_candidates leaves alone, the candidate lists apart
notClearVars == <<voteVars, valVars, spawnVars, trigVars, gatherVars, artifacts, otherVars>>

\* what gather_candidates leaves alone, the candidate lists apart
notGatherVars == <<voteVars, valVars, spawnVars, trigVars, clearVars, artifacts, otherVars>>

vars == <<candidates, votes, method, accepted, best, asked,
          veto, vpc, startSet, valid_candidates, req, reply, ri, restVars>>

\* ------------------------------------------------------------ list helpers
Range(s) == {s[i] : i \in DOMAIN s}

Min(a, b) == IF a < b THEN a ELSE b

\* s[:n] for n >= 0
Take(s, n) == SubSeq(s, 1, Min(n, Len(s)))

Reverse(s) == [i \in 1..Len(s) |-> s[Len(s) + 1 - i]]

\* list.remove(x): drops the first occurrence of x
RemoveFirst(s, x) ==
    LET i == CHOOSE j \in DOMAIN s : s[j] = x /\ \A k \in 1..(j - 1) : s[k] # x
    IN  SubSeq(s, 1, i - 1) \o SubSeq(s, i + 1, Len(s))

RECURSIVE Flatten(_)
Flatten(ss) == IF ss = <<>> THEN <<>> ELSE Head(ss) \o Flatten(Tail(ss))

RECURSIVE SumSeq(_)
SumSeq(s) == IF s = <<>> THEN 0 ELSE Head(s) + SumSeq(Tail(s))

\* the elements of s in the order of their first occurrence (the key order
\* of a dict or Counter filled from s)
RECURSIVE Dedup(_)
Dedup(s) ==
    IF s = <<>> THEN <<>>
    ELSE LET d == Dedup(SubSeq(s, 1, Len(s) - 1))
             x == s[Len(s)]
         IN  IF x \in Range(d) THEN d ELSE Append(d, x)

Count(s, x) == Cardinality({i \in DOMAIN s : s[i] = x})

\* sorted(items, key=..., reverse=True): descending and stable, that is,
\* items with equal keys keep their order
SortDesc(items, Gt(_, _)) ==
    LET n == Len(items)
        pos(i) == 1 + Cardinality({j \in 1..n : Gt(items[j], items[i])})
                    + Cardinality({j \in 1..(i - 1) :
                                     /\ ~Gt(items[j], items[i])
                                     /\ ~Gt(items[i], items[j])})
    IN  [p \in 1..n |-> items[CHOOSE i \in 1..n : pos(i) = p]]

Ok(v) == [status |-> "ok", value |-> v, iters |-> 0]
Raise(e) == [status |-> e, value |-> <<>>, iters |-> 0]

\* ------------------------------------------------------------------- IRV
\* "for r in v: if r in R: v.remove(r)": the list is changed while it is
\* iterated, so the element that follows a removed one is skipped
RECURSIVE IterRemove(_, _, _)
IterRemove(v, i, R) ==
    IF i > Len(v) THEN v
    ELSE IF v[i] \in R THEN IterRemove(RemoveFirst(v, v[i]), i + 1, R)
         ELSE IterRemove(v, i + 1, R)

\* "c not in ranking": ranking holds (candidate, rank) tuples, and a
\* candidate is never equal to a tuple
InRanking(c, ranking) == FALSE

\* the first choices with the least common first
FplLeastCommon(ballots) ==
    LET firsts == [i \in DOMAIN ballots |-> ballots[i][1]]
        keys == Dedup(firsts)
        fp == SortDesc([i \in DOMAIN keys |-> <<keys[i], Count(firsts, keys[i])>>],
                       LAMBDA a, b : a[2] < b[2])
    IN  [i \in DOMAIN fp |-> fp[i][1]]

\* f = lambda x: Counter(e[0] for e in x).most_common(), then its keys
Fpl(ballots) ==
    LET firsts == [i \in DOMAIN ballots |-> ballots[i][1]]
        keys == Dedup(firsts)
        fp == SortDesc([i \in DOMAIN keys |-> <<keys[i], Count(firsts, keys[i])>>],
                       LAMBDA a, b : a[2] > b[2])
    IN  [i \in DOMAIN fp |-> fp[i][1]]

RemoveZerosVotes(ballots, fpl) ==
    [i \in DOMAIN ballots |-> IterRemove(ballots[i], 1, Cands \ Range(fpl))]

RemoveZerosRanking(fpl, cl, ranking) ==
    LET zeros == SelectSeq(cl, LAMBDA c : c \notin Range(fpl) /\ ~InRanking(c, ranking))
    IN  ranking \o [i \in DOMAIN zeros |-> <<zeros[i], 0>>]

RemoveLastVotes(ballots, fpl) ==
    [i \in DOMAIN ballots |-> IterRemove(ballots[i], 1, {fpl[Len(fpl)]})]

\* RemoveLastRanking with the eliminated candidate given the rank 0 that
\* _remove_zeros gives
RECURSIVE RemoveLastRankingAsZero(_, _, _)
RemoveLastRankingAsZero(fpl, cl, ranking) ==
    IF cl = <<>> THEN ranking
    ELSE IF Head(cl) = fpl[Len(fpl)]
         THEN RemoveLastRankingAsZero(fpl, Tail(cl), Append(ranking, <<Head(cl), 0>>))
         ELSE RemoveLastRankingAsZero(fpl, Tail(cl), ranking)

RECURSIVE RemoveLastRanking(_, _, _)
RemoveLastRanking(fpl, cl, ranking) ==
    IF cl = <<>> THEN ranking
    ELSE IF Head(cl) = fpl[Len(fpl)] /\ ~InRanking(Head(cl), ranking)
         THEN RemoveLastRanking(fpl, Tail(cl),
                                Append(ranking, <<Head(cl), Len(ranking) + 1>>))
         ELSE RemoveLastRanking(fpl, Tail(cl), ranking)

\* the loop with "while len(fpl) > 0": the last candidate is eliminated too
RECURSIVE IRVLoopUntilEmpty(_, _, _, _)
IRVLoopUntilEmpty(ballots, cl, ranking, n) ==
    IF \E i \in DOMAIN ballots : ballots[i] = <<>> THEN Raise("IndexError")
    ELSE LET fpl == Fpl(ballots) IN
         IF Len(fpl) > 0
         THEN LET r1 == RemoveZerosRanking(fpl, cl, ranking)
                  b1 == RemoveZerosVotes(ballots, fpl)
              IN  IRVLoopUntilEmpty(RemoveLastVotes(b1, fpl), Take(fpl, Len(fpl) - 1),
                                    RemoveLastRanking(fpl, cl, r1), n + 1)
         ELSE Raise("IndexError")

RECURSIVE IRVLoop(_, _, _, _)
IRVLoop(ballots, cl, ranking, n) ==
    IF \E i \in DOMAIN ballots : ballots[i] = <<>> THEN Raise("IndexError")
    ELSE LET fpl == Fpl(ballots) IN
         IF Len(fpl) > 1
         THEN LET r1 == RemoveZerosRanking(fpl, cl, ranking)
                  b1 == RemoveZerosVotes(ballots, fpl)
              IN  IRVLoop(RemoveLastVotes(b1, fpl), Take(fpl, Len(fpl) - 1),
                          RemoveLastRanking(fpl, cl, r1), n + 1)
         ELSE IF fpl = <<>> THEN Raise("IndexError")
         ELSE [status |-> "ok",
               value |-> Reverse(Append(ranking, <<fpl[1], Len(ranking) + 1>>)),
               iters |-> n]

VoteIRV(cl, vs) ==
    IRVLoop([i \in DOMAIN vs |-> [j \in DOMAIN vs[i] |-> vs[i][j][1]]], cl, <<>>, 0)

\* ------------------------------------------------------------------ mean
\* str(candidate).  SpiroArtifact.__str__ prints the creator and the
\* creator's framing, not the artifact object itself: the last two artifacts
\* are two objects of one creator with one framing, so they print alike.
StrOf(c) == IF c = NumCands THEN NumCands - 1 ELSE c

\* a / b > c / d for the fractions <<a, b>> and <<c, d>>, b and d positive
FracGt(x, y) == x[1] * y[2] > y[1] * x[2]

FracEq(x, y) == x[1] * y[2] = y[1] * x[2]

\* the keys of  sums = {str(candidate): [] for candidate in self.candidates}
SumKeys(cl) == Dedup([i \in DOMAIN cl |-> StrOf(cl[i])])

\* sums[key] after the loop over the votes: the scores filed under key
SumsOf(key, vs) ==
    LET all == Flatten(vs)
        mine == SelectSeq(all, LAMBDA v : StrOf(v[1]) = key)
    IN  [i \in DOMAIN mine |-> mine[i][2]]

\* for e in best: for c in self.candidates: if str(c) == e[0]: d.append(..)
RECURSIVE MeanExpand(_, _)
MeanExpand(bst, cl) ==
    IF bst = <<>> THEN <<>>
    ELSE LET e == Head(bst)
             cs == SelectSeq(cl, LAMBDA c : StrOf(c) = e[1])
         IN  [i \in DOMAIN cs |-> <<cs[i], e[2]>>] \o MeanExpand(Tail(bst), cl)

VoteMean(cl, vs, k) ==
    LET keys == SumKeys(cl)
        all == Flatten(vs)
    IN  IF \E i \in DOMAIN all : StrOf(all[i][1]) \notin Range(keys)
        THEN Raise("KeyError")
        ELSE IF \E i \in DOMAIN keys : SumsOf(keys[i], vs) = <<>>
        THEN Raise("ZeroDivisionError")
        ELSE LET items == [i \in DOMAIN keys |->
                             <<keys[i], <<SumSeq(SumsOf(keys[i], vs)),
                                          Len(SumsOf(keys[i], vs))>> >>]
                 ordering == SortDesc(items, LAMBDA a, b : FracGt(a[2], b[2]))
             IN  Ok(MeanExpand(Take(ordering, Min(k, Len(ordering))), cl))

\* ------------------------------------------------------ best, least_worst
\* BestLoop with the comparison turned round
RECURSIVE BestLoopLess(_, _, _)
BestLoopLess(vs, i, b) ==
    IF i > Len(vs) THEN Ok(<<b>>)
    ELSE IF vs[i] = <<>> THEN Raise("IndexError")
    ELSE IF vs[i][1][2] < b[2] THEN BestLoopLess(vs, i + 1, vs[i][1])
    ELSE BestLoopLess(vs, i + 1, b)

\* best = [votes[0][0]]; for v in votes[1:]: if v[0][1] > best[0][1]: ...
RECURSIVE BestLoop(_, _, _)
BestLoop(vs, i, b) ==
    IF i > Len(vs) THEN Ok(<<b>>)
    ELSE IF vs[i] = <<>> THEN Raise("IndexError")
    ELSE IF vs[i][1][2] > b[2] THEN BestLoop(vs, i + 1, vs[i][1])
    ELSE BestLoop(vs, i + 1, b)

VoteBest(vs) ==
    IF vs = <<>> \/ vs[1] = <<>> THEN Raise("IndexError")
    ELSE BestLoop(vs, 2, vs[1][1])

\* LeastWorstLoop with the comparison turned round
RECURSIVE LeastWorstLoopLess(_, _, _)
LeastWorstLoopLess(vs, i, b) ==
    IF i > Len(vs) THEN Ok(<<b>>)
    ELSE IF vs[i] = <<>> THEN Raise("IndexError")
    ELSE IF vs[i][Len(vs[i])][2] < b[2]
         THEN LeastWorstLoopLess(vs, i + 1, vs[i][Len(vs[i])])
    ELSE LeastWorstLoopLess(vs, i + 1, b)

\* best = [votes[0][-1]]; for v in votes[1:]: if v[-1][1] > best[0][1]: ...
RECURSIVE LeastWorstLoop(_, _, _)
LeastWorstLoop(vs, i, b) ==
    IF i > Len(vs) THEN Ok(<<b>>)
    ELSE IF vs[i] = <<>> THEN Raise("IndexError")
    ELSE IF vs[i][Len(vs[i])][2] > b[2]
         THEN LeastWorstLoop(vs, i + 1, vs[i][Len(vs[i])])
    ELSE LeastWorstLoop(vs, i + 1, b)

VoteLeastWorst(vs) ==
    IF vs = <<>> \/ vs[1] = <<>> THEN Raise("IndexError")
    ELSE LeastWorstLoop(vs, 2, vs[1][Len(vs[1])])

\* ---------------------------------------------------------------- random
\* the orders shuffle(rcands) can leave the list in
Shuffles(cl) ==
    {[i \in DOMAIN cl |-> cl[p[i]]] :
        p \in {q \in [DOMAIN cl -> DOMAIN cl] :
                 \A i, j \in DOMAIN cl : i # j => q[i] # q[j]}}

\* VoteRandom without the cut to the accepted count
VoteRandomNoCut(rcands, k) == Ok([i \in DOMAIN rcands |-> <<rcands[i], 0>>])

VoteRandom(rcands, k) ==
    LET cut == Take(rcands, Min(k, Len(rcands)))
    IN  Ok([i \in DOMAIN cut |-> <<cut[i], 0>>])

\* -------------------------------------------------------- perform_voting
\* the return value of perform_voting(method, accepted) for the vote set vs
\* and, for 'random', the order rcands the shuffle left
Voting(m, k, cl, vs, rcands) ==
    IF Len(cl) = 0 THEN Ok(<<>>)
    ELSE CASE m = "IRV" ->
                LET o == VoteIRV(cl, vs)
                IN  [o EXCEPT !.value = Take(o.value, Min(k, Len(o.value)))]
           [] m = "best" -> VoteBest(vs)
           [] m = "least_worst" -> VoteLeastWorst(vs)
           [] m = "random" -> VoteRandom(rcands, k)
           [] m = "mean" -> VoteMean(cl, vs, k)

\* votes = self._gather_votes() with the managers always asked, also for
\* an empty candidate list
GatherAskedAlways(cl) == Workers

\* the managers that get a get_votes request: perform_voting returns before
\* votes = self._gather_votes() when there is no candidate
GatherAsked(cl) == IF Len(cl) = 0 THEN {} ELSE Workers

\* shuffle(self.candidates): the list itself is shuffled
CandidatesShuffledInPlace(m, cl, rcands) == IF m = "random" THEN rcands ELSE cl

\* self._candidates after the call: 'random' shuffles rcands, a copy made by
\* list(self.candidates), and _vote_IRV works on cl, another copy
CandidatesAfterVoting(m, cl, rcands) == cl

PerformVoting(m, k) ==
    /\ method = "none"
    /\ method' = m
    /\ accepted' = k
    /\ asked' = GatherAsked(candidates)
    /\ \E rcands \in (IF m = "random" THEN Shuffles(candidates) ELSE {candidates}) :
          /\ best' = Voting(m, k, candidates, votes, rcands)
          /\ candidates' = CandidatesAfterVoting(m, candidates, rcands)
    /\ UNCHANGED <<votes, valVars, restVars>>

VotingIRV == \E k \in Ks : PerformVoting("IRV", k)
VotingMean == \E k \in Ks : PerformVoting("mean", k)
VotingBest == \E k \in Ks : PerformVoting("best", k)
VotingLeastWorst == \E k \in Ks : PerformVoting("least_worst", k)
VotingRandom == \E k \in Ks : PerformVoting("random", k)

\* ----------------------------------------------------------- vote inputs
\* the strict, complete rankings of the candidates 1..n
Rankings(n) ==
    {p \in [1..n -> 1..n] : \A i, j \in 1..n : i # j => p[i] # p[j]}

\* the vote list of an agent that ranks p: best first, scores falling
Ballot(p) == [i \in DOMAIN p |-> <<p[i], Len(p) - i>>]

\* the vote lists an agent can return for the candidate list cl: some of the
\* candidates, each once, in any order, each with a score
VoteLists(cl) ==
    UNION {{v \in [1..n -> Range(cl) \X Scores] :
               \A i, j \in 1..n : i # j => v[i][1] # v[j][1]} :
           n \in 1..Cardinality(Range(cl))}

\* the lists of n artifact objects of S: no object is in a list twice
DistinctLists(S, n) ==
    {cl \in [1..n -> S] : \A i, j \in 1..n : i # j => cl[i] # cl[j]}

\* a scored vote is about one candidate or about two
CandLists == DistinctLists(Cands, 1) \cup DistinctLists(Cands, 2)

NoVote ==
    /\ method = "none"
    /\ accepted = 0
    /\ best = [status |-> "none", value |-> <<>>, iters |-> 0]
    /\ asked = {}

\* no message: no list holds the number 0
NoMsg == <<0>>

\* no spawn call was made
NoSpawn ==
    /\ spc = [s \in SpawnCalls |-> "idle"]
    /\ seen = [s \in SpawnCalls |-> <<>>]
    /\ ns = [s \in SpawnCalls |-> 0]
    /\ saddr = [s \in SpawnCalls |-> 1]
    /\ placed = [s \in SpawnCalls |-> 0]
    /\ nspawn = 0
    /\ overlap = FALSE
    /\ explicit = FALSE

\* no result list: slave 0 does not exist
NoResult == << <<0, 0>> >>

\* trigger_all was not called
NoTrigger ==
    /\ tpc = "idle"
    /\ ttask = [w \in Slaves |-> "none"]
    /\ trep = [w \in Slaves |-> NoResult]
    /\ arrived = <<>>
    /\ tresult = NoResult
    /\ terr = 0

\* no artifact was published
NoArtifact == artifacts = <<>>

\* no summary: summaries are 0 (the master's) and the numbers of the slaves
NoReply == -1
StopError == -2
NoSummaries == <<NoReply>>

\* destroy was not called
NoDestroy ==
    /\ dpc = "idle"
    /\ dlog = <<>>
    /\ drets = <<>>
    /\ dreply = NoReply
    /\ dresult = NoSummaries
    /\ pool = "running"
    /\ stop_received = {}

\* is_ready was not called; the slaves are up and ready
NoReady ==
    /\ sstat = [w \in Workers |-> "ready"]
    /\ own = <<TRUE, TRUE>>
    /\ ipc = "idle"
    /\ iseen = <<>>

\* wait_slaves was not called
NoWait ==
    /\ wpc = "idle"
    /\ wargs = <<0, FALSE>>
    /\ online = <<>>
    /\ wi = 1
    /\ clock = 0

\* no call to another process is under way
NoCall ==
    /\ kpc = "idle"
    /\ kop = "none"
    /\ ktarget = "up"
    /\ kwait = 0

\* the manager of a slave after __init__, nothing reported
NoHost ==
    /\ host_manager = [w \in Workers |-> "None"]
    /\ bound = [w \in Workers |-> "None"]
    /\ hostUp = {}
    /\ rcall = <<"none", "None", FALSE, 0>>
    /\ rres = "none"
    /\ delivered = <<>>

\* an environment with its manager only
NoAgent ==
    /\ registered = <<>>
    /\ sres = "none"
    /\ sbefore = <<>>

\* no start coroutine is looked at: there is no slave process
NoStart ==
    /\ startpc = <<>>
    /\ stopped = <<>>
    /\ interrupted = <<>>
    /\ destroyed = <<>>
    /\ stopres = <<>>

\* no spawn_n call was made
NoBatch ==
    /\ bpc = "idle"
    /\ bargs = <<>>
    /\ brets = <<>>
    /\ bbefore = 0
    /\ bforeign = 0
    /\ breq = 0

\* no agent is asked to validate
NoVeto ==
    /\ acands = <<>>
    /\ aevals = <<>>
    /\ aargs = <<>>
    /\ avalid = <<>>
    /\ aspiro = 0

\* no short-term memory is looked at
NoMemory ==
    /\ mem_length = 0
    /\ mem_artifacts = <<>>
    /\ mem_before = <<>>
    /\ mem_item = 0
    /\ mem_calls = 0

\* no manager was called for its candidates
NoLocalCall ==
    /\ lcall = <<>>
    /\ lbefore = <<>>
    /\ lret = <<>>

\* no round is looked at
NoRound ==
    /\ rpc = <<>>
    /\ rbefore = <<>>
    /\ rglobal = <<>>

\* no start-up or shutdown goes on
NoOther ==
    /\ NoDestroy
    /\ NoReady
    /\ NoWait
    /\ NoCall
    /\ NoHost
    /\ NoAgent
    /\ NoStart
    /\ NoBatch
    /\ NoVeto
    /\ NoMemory
    /\ NoLocalCall
    /\ NoRound

\* clear_candidates was not called
NoClear ==
    /\ cpc = "idle"
    /\ ctask = [w \in Slaves |-> "none"]
    /\ nclears = 0
    /\ clearStart = {}

\* gather_candidates was not called
NoGather ==
    /\ gpc = "idle"
    /\ gheld = <<>>

\* the slaves hold no candidate and nothing is cleared or gathered
NoLocal ==
    /\ wcands = [w \in Slaves |-> <<>>]
    /\ NoClear
    /\ NoGather

\* nothing but voting or validation goes on
NoRest ==
    /\ nagents = [w \in Slaves |-> 0]
    /\ NoSpawn
    /\ NoTrigger
    /\ NoArtifact
    /\ NoOther
    /\ NoLocal

\* no validation is under way
NoValidation ==
    /\ vpc = "idle"
    /\ startSet = {}
    /\ valid_candidates = {}
    /\ req = [w \in Workers |-> NoMsg]
    /\ reply = [w \in Workers |-> NoMsg]
    /\ ri = 1

\* ranked votes: every agent ranks all of the candidates 1..n
InitIRV ==
    /\ \E n \in 1..NumCands, nv \in 1..MaxVoters :
          /\ candidates = [i \in 1..n |-> i]
          /\ votes \in [1..nv -> {Ballot(p) : p \in Rankings(n)}]
    /\ NoVote
    /\ veto = [w \in Workers |-> {}]
    /\ NoValidation
    /\ NoRest

\* scored votes
InitCard ==
    /\ candidates \in CandLists
    /\ \E na \in 1..MaxScorers : votes \in [1..na -> VoteLists(candidates)]
    /\ NoVote
    /\ veto = [w \in Workers |-> {}]
    /\ NoValidation
    /\ NoRest

\* any candidate list; the one vote list scores every candidate alike, as
\* EnvManager.vote does
InitRandom ==
    /\ candidates \in UNION {DistinctLists(Cands, n) : n \in 1..NumCands}
    /\ votes = << [i \in DOMAIN candidates |-> <<candidates[i], 1>>] >>
    /\ NoVote
    /\ veto = [w \in Workers |-> {}]
    /\ NoValidation
    /\ NoRest

SpecIRV == InitIRV /\ [][VotingIRV]_vars

\* the ranking of n candidates that starts at candidate r and goes round
RotationOf(n, r) == [i \in 1..n |-> ((i + r - 2) % n) + 1]

\* the agents' ballots are rotations of the candidate list
InitRotation ==
    /\ \E n \in 1..NumCands, nv \in 1..MaxVoters :
         /\ candidates = [i \in 1..n |-> i]
         /\ votes \in [1..nv -> {Ballot(RotationOf(n, r)) : r \in 1..n}]
    /\ NoVote
    /\ veto = [w \in Workers |-> {}]
    /\ NoValidation
    /\ NoRest

SpecRotation == InitRotation /\ [][VotingIRV]_vars

\* perform_voting('IRV', accepted) with accepted the number of candidates:
\* the whole ranking is returned
VotingIRVAll == PerformVoting("IRV", Len(candidates))

SpecRanked == InitIRV /\ [][VotingIRVAll]_vars

SpecMean == InitCard /\ [][VotingMean]_vars

NextBest == VotingBest \/ VotingLeastWorst

SpecBest == InitCard /\ [][NextBest]_vars

SpecRandom == InitRandom /\ [][VotingRandom]_vars

\* any candidate list, the empty one too; the one vote list scores every
\* candidate alike, as EnvManager.vote does
InitVoting ==
    /\ candidates \in UNION {DistinctLists(Cands, n) : n \in 0..NumCands}
    /\ votes = << [i \in DOMAIN candidates |-> <<candidates[i], 1>>] >>
    /\ NoVote
    /\ veto = [w \in Workers |-> {}]
    /\ NoValidation
    /\ NoRest

NextVoting ==
    \/ VotingIRV
    \/ VotingMean
    \/ VotingBest
    \/ VotingLeastWorst
    \/ VotingRandom

SpecVoting == InitVoting /\ [][NextVoting]_vars

\* ------------------------------------------------------------ validation
\* MultiEnvironment.add_candidate, reached through the exposed
\* MultiEnvManager.add_candidate while the event loop runs.  The artifact
\* arrives in a message: it is an object the list does not hold yet.
AddCandidate(c) ==
    /\ vpc \in {"idle", "fanout", "merge"}
    /\ c \notin Range(candidates)
    /\ candidates' = Append(candidates, c)
    /\ UNCHANGED <<voteVars, valVars, restVars>>

\* The statement "self.validate_candidates()" of vote_and_save_info.  The
\* body of validate_candidates holds a "yield from", so the call only makes
\* a generator, which the statement drops: no line of the body runs.
ValidateCandidatesCall ==
    /\ vpc = "idle"
    /\ vpc' = "returned"
    /\ startSet' = Range(candidates)
    /\ UNCHANGED <<candidates, voteVars, veto, valid_candidates, req, reply, ri, restVars>>

\* A caller that iterates the generator: the body starts, takes
\* valid_candidates = set(self.candidates) and enters aiomas.run(gather).
ValidateCandidatesStart ==
    /\ vpc = "idle"
    /\ vpc' = "fanout"
    /\ startSet' = Range(candidates)
    /\ valid_candidates' = Range(candidates)
    /\ UNCHANGED <<candidates, voteVars, veto, req, reply, ri, restVars>>

\* _validate_candidates(addr): after the connect, the request goes out with
\* self.candidates as it is then; the answer is not awaited.  gather ends
\* when the last request is out.
SendValidate(w) ==
    /\ vpc = "fanout"
    /\ req[w] = NoMsg
    /\ \A v \in 1..(w - 1) : req[v] # NoMsg
    /\ req' = [req EXCEPT ![w] = candidates]
    /\ vpc' = IF w = NumWorkers THEN "merge" ELSE "fanout"
    /\ UNCHANGED <<candidates, voteVars, veto, startSet, valid_candidates, reply, ri, restVars>>

\* Environment.validate_candidates in the slave: the candidates that no
\* agent of the slave vetoes stay, in their order
LocalValid(cl, vetoed) == SelectSeq(cl, LAMBDA c : c \notin vetoed)

\* self.env._candidates.extend(candidates) in place of the assignment
ReplaceLocalExtend(old, cs) == old \o cs

\* self.env._candidates = candidates
ReplaceLocal(old, cs) == cs

\* EnvManager.validate_candidates(candidates) in slave w, and its answer
\* reaching the future in the master
WorkerValidate(w) ==
    /\ vpc \in {"fanout", "merge"}
    /\ req[w] # NoMsg
    /\ reply[w] = NoMsg
    /\ wcands' = [wcands EXCEPT ![w] = LocalValid(ReplaceLocal(@, req[w]), veto[w])]
    /\ reply' = [reply EXCEPT ![w] = wcands'[w]]
    /\ UNCHANGED <<candidates, voteVars, veto, vpc, startSet, valid_candidates, req, ri>>
    /\ UNCHANGED <<spawnVars, trigVars, clearVars, gatherVars, artifacts, otherVars>>

\* vc = set(result); valid_candidates = valid_candidates.intersection(vc)
\* with the union of the two sets in place of the intersection
MergeResultUnion(valid, result) == valid \cup Range(result)

\* vc = set(result); valid_candidates = valid_candidates.intersection(vc)
MergeResult(valid, result) == valid \cap Range(result)

\* list(valid_candidates): a set is listed in an order of its own
ListsOf(S) ==
    {l \in [1..Cardinality(S) -> S] : \A i, j \in DOMAIN l : i # j => l[i] # l[j]}

\* "result = yield from r" with the answer there: the loop takes it and goes
\* on; after the last one, self._candidates = list(valid_candidates)
MergeStep ==
    /\ vpc = "merge"
    /\ reply[ri] # NoMsg
    /\ valid_candidates' = MergeResult(valid_candidates, reply[ri])
    /\ IF ri < NumWorkers
       THEN /\ ri' = ri + 1
            /\ UNCHANGED <<candidates, vpc>>
       ELSE /\ candidates' \in ListsOf(valid_candidates')
            /\ vpc' = "done"
            /\ UNCHANGED ri
    /\ UNCHANGED <<voteVars, veto, startSet, req, reply, restVars>>

\* "result = yield from r" with the answer not there: the generator hands
\* the future to its caller; a caller that resumes it before the answer has
\* come makes the future raise, and the generator ends without line 943
ResumeEarly ==
    /\ vpc = "merge"
    /\ reply[ri] = NoMsg
    /\ vpc' = "failed"
    /\ UNCHANGED <<candidates, voteVars, veto, startSet, valid_candidates, req, reply, ri, restVars>>

\* the candidates gathered for the round, and what the agents of every
\* slave think of them
InitValidate ==
    /\ candidates \in UNION {DistinctLists(ValCands, n) : n \in 0..NumGathered}
    /\ veto \in [Workers -> SUBSET ValCands]
    /\ votes = <<>>
    /\ NoVote
    /\ NoValidation
    /\ NoRest

NextValidate ==
    \/ \E c \in ValCands : AddCandidate(c)
    \/ ValidateCandidatesCall
    \/ ValidateCandidatesStart
    \/ \E w \in Workers : SendValidate(w)
    \/ \E w \in Workers : WorkerValidate(w)
    \/ MergeStep
    \/ ResumeEarly

SpecValidate == InitValidate /\ [][NextValidate]_vars

\* ----------------------------------------------------------------- spawn
\* "if n < ns" turned round: the fullest slave is taken
Larger(n, m) == n > m

\* "if n < ns" with <= : among equal counts the last slave is taken
SmallerOrEqual(n, m) == n <= m

\* "if n < ns" of _get_smallest_env
Smaller(n, m) == n < m

\* spawn(agent_cls) is called with addr = None: _get_smallest_env begins
SpawnStart(s) ==
    /\ spc[s] \in {"idle", "done"}
    /\ nspawn < MaxSpawns
    /\ nspawn' = nspawn + 1
    /\ spc' = [spc EXCEPT ![s] = "query"]
    /\ seen' = [seen EXCEPT ![s] = <<>>]
    /\ overlap' = (overlap \/ \E t \in SpawnCalls \ {s} : spc[t] \in {"query", "place"})
    /\ UNCHANGED <<nagents, ns, saddr, placed, explicit, notSpawnVars>>

\* spawn(agent_cls, addr=addr): no slave is asked for its agents
SpawnStartAt(s, addr) ==
    /\ spc[s] \in {"idle", "done"}
    /\ nspawn < MaxSpawns
    /\ nspawn' = nspawn + 1
    /\ spc' = [spc EXCEPT ![s] = "place"]
    /\ seen' = [seen EXCEPT ![s] = <<>>]
    /\ saddr' = [saddr EXCEPT ![s] = addr]
    /\ explicit' = TRUE
    /\ overlap' = (overlap \/ \E t \in SpawnCalls \ {s} : spc[t] \in {"query", "place"})
    /\ UNCHANGED <<nagents, ns, placed, notSpawnVars>>

\* agents = await self._get_agents(addr); n = len(agents), for the next
\* address of _manager_addrs, and the comparison with ns
GetAgents(s) ==
    /\ spc[s] = "query"
    /\ LET i == Len(seen[s]) + 1
           n == nagents[i]
           take == i = 1 \/ Smaller(n, ns[s])
       IN  /\ seen' = [seen EXCEPT ![s] = Append(@, n)]
           /\ ns' = [ns EXCEPT ![s] = IF take THEN n ELSE @]
           /\ saddr' = [saddr EXCEPT ![s] = IF take THEN i ELSE @]
           /\ spc' = [spc EXCEPT ![s] = IF i = NumSlaves THEN "place" ELSE "query"]
    /\ UNCHANGED <<nagents, placed, nspawn, overlap, explicit, notSpawnVars>>

\* r_manager = await self.env.connect(addr); await r_manager.spawn(...):
\* the manager of the slave makes the agent
SpawnAgent(s) ==
    /\ spc[s] = "place"
    /\ nagents' = [nagents EXCEPT ![saddr[s]] = @ + 1]
    /\ placed' = [placed EXCEPT ![s] = saddr[s]]
    /\ spc' = [spc EXCEPT ![s] = "done"]
    /\ UNCHANGED <<seen, ns, saddr, nspawn, overlap, explicit, notSpawnVars>>

\* every slave holds the same number of agents
InitSpawn ==
    /\ \E n \in 0..MaxAgents : nagents = [w \in Slaves |-> n]
    /\ NoSpawn
    /\ NoTrigger
    /\ NoArtifact
    /\ NoOther
    /\ NoLocal
    /\ candidates = <<>>
    /\ votes = <<>>
    /\ NoVote
    /\ veto = [w \in Workers |-> {}]
    /\ NoValidation

NextSpawn ==
    \/ \E s \in SpawnCalls : SpawnStart(s)
    \/ \E s \in SpawnCalls, addr \in Slaves : SpawnStartAt(s, addr)
    \/ \E s \in SpawnCalls : GetAgents(s)
    \/ \E s \in SpawnCalls : SpawnAgent(s)

SpecSpawn == InitSpawn /\ [][NextSpawn]_vars

\* ----------------------------------------------------------- trigger_all
\* the address of agent i of slave w; the manager of the slave is agent 0
AgentAddr(w, i) == <<w, i>>

\* Environment.trigger_all in slave w: every agent of the slave but its
\* manager acts once, and the results come back in the order of the agents.
\* The result of an agent is written as the agent's address.
LocalTrigger(w) == [i \in 1..nagents[w] |-> AgentAddr(w, i)]

\* the tasks made by the loop over self.addrs, with a task for the first
\* address only
EnsuredFirst(addrs) == {1}

\* for addr in self.addrs: task = asyncio.ensure_future(...): the slaves
\* that have a task when trigger_all comes to "await asyncio.gather"
Ensured(addrs) == addrs

\* a task raised and gather goes on waiting for the others
AfterExceptionIgnored(pc) == pc

\* a task raised: "await asyncio.gather(*tasks)" raises in trigger_all, if
\* trigger_all is still waiting there
AfterException(pc) == IF pc = "waiting" THEN "failed" ELSE pc

\* the result lists chained in the order the answers came
ChainArrived(rets) == Flatten([i \in DOMAIN arrived |-> rets[arrived[i]]])

\* the result lists chained without the first one
ChainTail(rets) == Flatten(Tail(rets))

\* list(itertools.chain(*rets))
Chain(rets) == Flatten(rets)

TriggerAllStart ==
    /\ tpc = "idle"
    /\ tpc' = "waiting"
    /\ ttask' = [w \in Slaves |-> IF w \in Ensured(Slaves) THEN "created" ELSE "none"]
    /\ UNCHANGED <<trep, arrived, tresult, terr, notTrigVars>>

\* _trigger_slave(w): the connection is there and the request goes out
TriggerSend(w) ==
    /\ ttask[w] = "created"
    /\ ttask' = [ttask EXCEPT ![w] = "sent"]
    /\ UNCHANGED <<tpc, trep, arrived, tresult, terr, notTrigVars>>

\* EnvManager.trigger_all in slave w, and its answer ending the task
SlaveTrigger(w) ==
    /\ ttask[w] = "sent"
    /\ ttask' = [ttask EXCEPT ![w] = "replied"]
    /\ trep' = [trep EXCEPT ![w] = LocalTrigger(w)]
    /\ arrived' = Append(arrived, w)
    /\ UNCHANGED <<tpc, tresult, terr, notTrigVars>>

\* _trigger_slave(w) raises: the connect times out, or the call raises in
\* the slave.  The other tasks are not cancelled.
TriggerFail(w) ==
    /\ ttask[w] \in {"created", "sent"}
    /\ ttask' = [ttask EXCEPT ![w] = "failed"]
    /\ tpc' = AfterException(tpc)
    /\ terr' = IF tpc = "waiting" /\ tpc' = "failed" THEN w ELSE terr
    /\ UNCHANGED <<trep, arrived, tresult, notTrigVars>>

\* every task has its answer: gather returns them in the order of the tasks
TriggerAllReturn ==
    /\ tpc = "waiting"
    /\ \A w \in Slaves : ttask[w] = "replied"
    /\ tresult' = Chain([w \in Slaves |-> trep[w]])
    /\ tpc' = "done"
    /\ UNCHANGED <<ttask, trep, arrived, terr, notTrigVars>>

InitTrigger ==
    /\ nagents \in [Slaves -> 0..MaxAgents]
    /\ NoSpawn
    /\ NoTrigger
    /\ NoArtifact
    /\ NoOther
    /\ NoLocal
    /\ candidates = <<>>
    /\ votes = <<>>
    /\ NoVote
    /\ veto = [w \in Workers |-> {}]
    /\ NoValidation

NextTrigger ==
    \/ TriggerAllStart
    \/ \E w \in Slaves : TriggerSend(w)
    \/ \E w \in Slaves : SlaveTrigger(w)
    \/ \E w \in Slaves : TriggerFail(w)
    \/ TriggerAllReturn

SpecTrigger == InitTrigger /\ [][NextTrigger]_vars

\* ------------------------------------------------------ clear_candidates
\* the candidate lists the slaves can hold: an artifact is a candidate of
\* the one slave whose agent made it
LocalHoldings ==
    {h \in [Slaves -> UNION {DistinctLists(ValCands, n) : n \in 0..NumGathered}] :
        \A v, w \in Slaves : v # w => Range(h[v]) \cap Range(h[w]) = {}}

\* Environment.clear_candidates in a slave: its candidate list is emptied
LocalClear == <<>>

\* clear_candidates(): self._candidates = [] comes first, then a task is
\* made for every manager address and aiomas.run starts the event loop
ClearCandidatesStart ==
    /\ cpc \in {"idle", "done"}
    /\ nclears < MaxClears
    /\ nclears' = nclears + 1
    /\ clearStart' = Range(candidates)
    /\ candidates' = <<>>
    /\ ctask' = [w \in Slaves |-> "created"]
    /\ cpc' = "fanout"
    /\ UNCHANGED <<wcands, notClearVars>>

\* _clear_candidates(w): the connection is there and the request goes out
ClearSend(w) ==
    /\ ctask[w] = "created"
    /\ ctask' = [ctask EXCEPT ![w] = "sent"]
    /\ UNCHANGED <<candidates, wcands, cpc, nclears, clearStart, notClearVars>>

\* EnvManager.clear_candidates in slave w, and its answer ending the task
SlaveClear(w) ==
    /\ ctask[w] = "sent"
    /\ ctask' = [ctask EXCEPT ![w] = "replied"]
    /\ wcands' = [wcands EXCEPT ![w] = LocalClear]
    /\ UNCHANGED <<candidates, cpc, nclears, clearStart, notClearVars>>

\* _clear_candidates(w) raises (the connect times out): aiomas.run raises
\* in clear_candidates
ClearFail(w) ==
    /\ ctask[w] \in {"created", "sent"}
    /\ ctask' = [ctask EXCEPT ![w] = "failed"]
    /\ cpc' = IF cpc = "fanout" THEN "failed" ELSE cpc
    /\ UNCHANGED <<candidates, wcands, nclears, clearStart, notClearVars>>

\* every task has its answer: aiomas.run returns and so does the call
ClearReturn ==
    /\ cpc = "fanout"
    /\ \A w \in Slaves : ctask[w] = "replied"
    /\ cpc' = "done"
    /\ UNCHANGED <<candidates, wcands, ctask, nclears, clearStart, notClearVars>>

\* MultiEnvManager.add_candidate: a candidate a slave's manager has pushed
\* (EnvManager.add_candidate does not await the call) is delivered while
\* the event loop of clear_candidates runs
PushDuringClear(c) ==
    /\ cpc = "fanout"
    /\ AddCandidate(c)

InitClear ==
    /\ candidates \in UNION {DistinctLists(ValCands, n) : n \in 0..NumGathered}
    /\ wcands \in LocalHoldings
    /\ NoClear
    /\ NoGather
    /\ nagents = [w \in Slaves |-> 0]
    /\ NoSpawn
    /\ NoTrigger
    /\ NoArtifact
    /\ NoOther
    /\ votes = <<>>
    /\ NoVote
    /\ veto = [w \in Workers |-> {}]
    /\ NoValidation

NextClear ==
    \/ ClearCandidatesStart
    \/ \E w \in Slaves : ClearSend(w)
    \/ \E w \in Slaves : SlaveClear(w)
    \/ \E w \in Slaves : ClearFail(w)
    \/ ClearReturn
    \/ \E c \in ValCands : PushDuringClear(c)

SpecClear == InitClear /\ [][NextClear]_vars

\* ----------------------------------------------------- gather_candidates
\* self._candidates.extend(...) in place of the assignment
GatherExtend(old, cands) == old \o cands

\* self._candidates = aiomas.run(until=self.gather_candidates())
GatherAssign(old, cands) == cands

\* vote_and_save_info starts the event loop with gather_candidates()
GatherStart ==
    /\ gpc = "idle"
    /\ gpc' = "gather"
    /\ gheld' = <<>>
    /\ UNCHANGED <<candidates, wcands, notGatherVars>>

\* cand = await self.get_candidates(addr) for the next address: the
\* manager of the slave answers with the candidate list of its environment
GetCandidates ==
    /\ gpc = "gather"
    /\ Len(gheld) < NumSlaves
    /\ gheld' = Append(gheld, wcands[Len(gheld) + 1])
    /\ UNCHANGED <<candidates, wcands, gpc, notGatherVars>>

\* get_candidates(addr) raises: gather_candidates and aiomas.run raise, the
\* assignment of vote_and_save_info does not happen
GatherFail ==
    /\ gpc = "gather"
    /\ Len(gheld) < NumSlaves
    /\ gpc' = "failed"
    /\ UNCHANGED <<candidates, wcands, gheld, notGatherVars>>

\* return cands, and the assignment to self._candidates
GatherReturn ==
    /\ gpc = "gather"
    /\ Len(gheld) = NumSlaves
    /\ candidates' = GatherAssign(candidates, Flatten(gheld))
    /\ gpc' = "done"
    /\ UNCHANGED <<wcands, gheld, notGatherVars>>

\* self.env.add_candidate(artifact) of an agent of slave w: a new artifact
\* becomes a candidate of the slave
LocalAdd(w, c) ==
    /\ gpc \in {"idle", "gather"}
    /\ \A v \in Slaves : c \notin Range(wcands[v])
    /\ wcands' = [wcands EXCEPT ![w] = Append(@, c)]
    /\ UNCHANGED <<candidates, gpc, gheld, notGatherVars>>

\* MultiEnvManager.add_candidate: a pushed candidate is delivered while the
\* event loop of gather_candidates runs
PushDuringGather(c) ==
    /\ gpc = "gather"
    /\ AddCandidate(c)

InitGather ==
    /\ candidates \in UNION {DistinctLists(ValCands, n) : n \in 0..NumGathered}
    /\ wcands \in LocalHoldings
    /\ NoClear
    /\ NoGather
    /\ nagents = [w \in Slaves |-> 0]
    /\ NoSpawn
    /\ NoTrigger
    /\ NoArtifact
    /\ NoOther
    /\ votes = <<>>
    /\ NoVote
    /\ veto = [w \in Workers |-> {}]
    /\ NoValidation

NextGather ==
    \/ GatherStart
    \/ GetCandidates
    \/ GatherFail
    \/ GatherReturn
    \/ \E w \in Slaves, c \in ValCands : LocalAdd(w, c)
    \/ \E c \in ValCands : PushDuringGather(c)

SpecGather == InitGather /\ [][NextGather]_vars

\* ------------------------------------------------------ artifact registry
\* self.artifacts.insert(0, artifact) in place of the append
ArtifactsInsertFirst(arts, a) == <<a>> \o arts

\* self.artifacts.append(artifact)
ArtifactsAppend(arts, a) == Append(arts, a)

\* for artifact in artifacts: self.add_artifact(artifact)
RECURSIVE AddAll(_, _)
AddAll(arts, new) ==
    IF new = <<>> THEN arts
    ELSE AddAll(ArtifactsAppend(arts, Head(new)), Tail(new))

\* what the registry operations leave alone
notArtifactVars ==
    <<candidates, voteVars, valVars, spawnVars, trigVars, wcands, clearVars, gatherVars,
      otherVars>>

\* add_artifact(artifact); the same artifact can be added again
AddArtifact(a) ==
    /\ Len(artifacts) < MaxArtifacts
    /\ artifacts' = ArtifactsAppend(artifacts, a)
    /\ UNCHANGED notArtifactVars

\* add_artifacts(artifacts)
AddArtifacts(new) ==
    /\ Len(artifacts) + Len(new) <= MaxArtifacts
    /\ artifacts' = AddAll(artifacts, new)
    /\ UNCHANGED notArtifactVars

\* the lists add_artifacts is called with
ArtifactLists == UNION {[1..n -> Artifacts] : n \in 0..MaxAdded}

\* no operation that awaits the slaves is under way
Quiet ==
    /\ vpc \notin {"fanout", "merge"}
    /\ \A s \in SpawnCalls : spc[s] \in {"idle", "done"}
    /\ tpc # "waiting"
    /\ cpc # "fanout"

\* the operations that were not called yet
NotValidated == vpc = "idle"
NotVoted == method = "none"
NotSpawned == nspawn = 0
NotTriggered == tpc = "idle"
NotCleared == nclears = 0

\* the vote set is the one the agents give for the candidates as they are
VotesFit == votes = << [i \in DOMAIN candidates |-> <<candidates[i], 1>>] >>

InitRegistry ==
    /\ candidates \in UNION {DistinctLists(ValCands, n) : n \in 0..NumGathered}
    /\ VotesFit
    /\ NoVote
    /\ veto = [w \in Workers |-> {w}]
    /\ NoValidation
    /\ nagents = [w \in Slaves |-> 1]
    /\ NoSpawn
    /\ NoTrigger
    /\ NoArtifact
    /\ NoOther
    /\ NoLocal

\* add_artifact, add_artifacts and add_candidate do not await and come at
\* any time, among the calls of one of the operations that await the slaves;
\* the calls of spawn come one after the other
NextRegistry ==
    \/ \E a \in Artifacts : AddArtifact(a)
    \/ \E new \in ArtifactLists : AddArtifacts(new)
    \/ \E c \in ValCands : AddCandidate(c)
    \/ NotVoted /\ NotSpawned /\ NotTriggered /\ NotCleared /\ ValidateCandidatesCall
    \/ NotVoted /\ NotSpawned /\ NotTriggered /\ NotCleared /\ ValidateCandidatesStart
    \/ \E w \in Workers : SendValidate(w)
    \/ \E w \in Workers : WorkerValidate(w)
    \/ MergeStep
    \/ ResumeEarly
    \/ NotValidated /\ NotSpawned /\ NotTriggered /\ NotCleared /\ VotesFit /\ VotingIRV
    \/ NotValidated /\ NotSpawned /\ NotTriggered /\ NotCleared /\ VotesFit /\ VotingMean
    \/ NotValidated /\ NotSpawned /\ NotTriggered /\ NotCleared /\ VotesFit /\ VotingBest
    \/ NotValidated /\ NotSpawned /\ NotTriggered /\ NotCleared /\ VotesFit /\ VotingLeastWorst
    \/ NotValidated /\ NotSpawned /\ NotTriggered /\ NotCleared /\ VotesFit /\ VotingRandom
    \/ NotValidated /\ NotVoted /\ NotSpawned /\ NotTriggered /\ ClearCandidatesStart
    \/ \E w \in Slaves : ClearSend(w)
    \/ \E w \in Slaves : SlaveClear(w)
    \/ \E w \in Slaves : ClearFail(w)
    \/ ClearReturn
    \/ NotValidated /\ NotVoted /\ NotSpawned /\ NotCleared /\ TriggerAllStart
    \/ \E w \in Slaves : TriggerSend(w)
    \/ \E w \in Slaves : SlaveTrigger(w)
    \/ \E w \in Slaves : TriggerFail(w)
    \/ TriggerAllReturn
    \/ NotValidated /\ NotVoted /\ NotTriggered /\ NotCleared /\ Quiet /\ SpawnStart("a")
    \/ \E addr \in Slaves :
          NotValidated /\ NotVoted /\ NotTriggered /\ NotCleared /\ Quiet /\ SpawnStartAt("a", addr)
    \/ \E s \in SpawnCalls : GetAgents(s)
    \/ \E s \in SpawnCalls : SpawnAgent(s)

SpecRegistry == InitRegistry /\ [][NextRegistry]_vars

\* a master with candidates and a registry that holds artifacts already
InitFrame ==
    /\ candidates \in UNION {DistinctLists(Cands, n) : n \in 0..NumCands}
    /\ VotesFit
    /\ NoVote
    /\ veto = [w \in Workers |-> {}]
    /\ NoValidation
    /\ nagents = [w \in Slaves |-> 0]
    /\ NoSpawn
    /\ NoTrigger
    /\ artifacts \in {a \in ArtifactLists : Len(a) < MaxArtifacts}
    /\ NoOther
    /\ NoLocal

\* one call of perform_voting, and the calls that publish artifacts
NextFrame ==
    \/ VotingIRV
    \/ VotingMean
    \/ VotingBest
    \/ VotingLeastWorst
    \/ VotingRandom
    \/ \E a \in Artifacts : AddArtifact(a)
    \/ \E new \in ArtifactLists : AddArtifacts(new)

SpecFrame == InitFrame /\ [][NextFrame]_vars

\* ---------------------------------------------------------------- destroy
\* what the slaves do not change of the master's side of destroy
notDestroyVars ==
    <<candidates, voteVars, valVars, spawnVars, trigVars, wcands, clearVars, gatherVars,
      artifacts, readyVars, waitVars, callVars, hostVars, nameVars, startVars, batchVars, vetoVars, memVars, localVars, roundVars>>

\* what save_info returns: the master's summary is 0, that of slave w is w
Summary(w) == w

\* self.stop_received.set_result(True) ahead of the loop that closes the agents
StopStepsSignalFirst(w, n) ==
    << <<"save_info", w, 0>>, <<"stop_received", w, 0>> >>
        \o [i \in 1..n |-> <<"close", w, i>>]

\* EnvManager.stop in slave w with n agents beside the manager: save_info,
\* a.close for every agent of get_agents, stop_received.set_result(True)
StopSteps(w, n) ==
    << <<"save_info", w, 0>> >>
        \o [i \in 1..n |-> <<"close", w, i>>]
        \o << <<"stop_received", w, 0>> >>

\* EnvManager.stop when a.close of agent j raises: the loop ends there
StopStepsUntil(w, j) ==
    << <<"save_info", w, 0>> >> \o [i \in 1..j |-> <<"close", w, i>>]

\* rets = rets + ret
DestroyRetsLast(ret, rets) == rets \o ret

\* rets = ret + rets
DestroyRets(ret, rets) == ret \o rets

\* _destroy: ret = [self.save_info(folder)], then _destroy_slaves starts
DestroyStart ==
    /\ dpc = "idle"
    /\ dlog' = Append(dlog, <<"save_info", 0, 0>>)
    /\ drets' = <<>>
    /\ dpc' = "slaves"
    /\ UNCHANGED <<dreply, dresult, pool, stop_received, notDestroyVars>>

\* _kill(addr, folder) for the next address of self.addrs: the connection
\* is there and the stop request goes out
Kill(w) ==
    /\ dpc = "slaves"
    /\ w = Len(drets) + 1
    /\ dlog' = Append(dlog, <<"stop", w, 0>>)
    /\ dpc' = "waiting"
    /\ UNCHANGED <<drets, dreply, dresult, pool, stop_received, notDestroyVars>>

\* _kill(addr, folder): the slave cannot be reached, connect raises and
\* with it _destroy_slaves and _destroy
KillUnreachable(w) ==
    /\ dpc = "slaves"
    /\ w = Len(drets) + 1
    /\ dpc' = "failed"
    /\ UNCHANGED <<dlog, drets, dreply, dresult, pool, stop_received, notDestroyVars>>

\* EnvManager.stop(folder) in slave w
SlaveStop(w) ==
    /\ dpc = "waiting"
    /\ w = Len(drets) + 1
    /\ dreply = NoReply
    /\ dlog' = dlog \o StopSteps(w, nagents[w])
    /\ stop_received' = stop_received \cup {w}
    /\ dreply' = Summary(w)
    /\ UNCHANGED <<dpc, drets, dresult, pool, notDestroyVars>>

\* EnvManager.stop(folder) in slave w, a.close of agent j raises
SlaveStopFails(w, j) ==
    /\ dpc = "waiting"
    /\ w = Len(drets) + 1
    /\ dreply = NoReply
    /\ j <= nagents[w]
    /\ dlog' = dlog \o StopStepsUntil(w, j)
    /\ dreply' = StopError
    /\ UNCHANGED <<dpc, drets, dresult, pool, stop_received, notDestroyVars>>

\* ret = await self._kill(addr, folder); rets.append(ret)
KillReturn ==
    /\ dpc = "waiting"
    /\ dreply \notin {NoReply, StopError}
    /\ drets' = Append(drets, dreply)
    /\ dlog' = Append(dlog, <<"returned", Len(drets) + 1, 0>>)
    /\ dreply' = NoReply
    /\ dpc' = IF Len(drets') = NumSlaves THEN "pool" ELSE "slaves"
    /\ UNCHANGED <<dresult, pool, stop_received, notDestroyVars>>

\* the stop call raises in the master: _kill, _destroy_slaves and _destroy
\* raise, no line of _destroy after line 1134 runs
KillRaises ==
    /\ dpc = "waiting"
    /\ dreply = StopError
    /\ dpc' = "failed"
    /\ UNCHANGED <<dlog, drets, dreply, dresult, pool, stop_received, notDestroyVars>>

\* self._pool.close(); self._pool.terminate(); self._pool.join()
PoolTerminate ==
    /\ dpc = "pool"
    /\ pool' = "terminated"
    /\ dlog' = Append(dlog, <<"terminate", 0, 0>>)
    /\ dpc' = "shutdown"
    /\ UNCHANGED <<drets, dreply, dresult, stop_received, notDestroyVars>>

\* await self._env.shutdown(as_coro=True); return rets
EnvShutdown ==
    /\ dpc = "shutdown"
    /\ dlog' = Append(dlog, <<"shutdown", 0, 0>>)
    /\ dresult' = DestroyRets(<<Summary(0)>>, drets)
    /\ dpc' = "done"
    /\ UNCHANGED <<drets, dreply, pool, stop_received, notDestroyVars>>

InitDestroy ==
    /\ nagents \in [Slaves -> 0..MaxAgents]
    /\ NoSpawn
    /\ NoTrigger
    /\ NoArtifact
    /\ NoOther
    /\ NoLocal
    /\ candidates = <<>>
    /\ votes = <<>>
    /\ NoVote
    /\ veto = [w \in Workers |-> {}]
    /\ NoValidation

NextDestroy ==
    \/ DestroyStart
    \/ \E w \in Slaves : Kill(w)
    \/ \E w \in Slaves : KillUnreachable(w)
    \/ \E w \in Slaves : SlaveStop(w)
    \/ \E w \in Slaves, j \in 1..MaxAgents : SlaveStopFails(w, j)
    \/ KillReturn
    \/ KillRaises
    \/ PoolTerminate
    \/ EnvShutdown

SpecDestroy == InitDestroy /\ [][NextDestroy]_vars

\* --------------------------------------------------------------- is_ready
\* how a slave stands: "down" accepts no connection; "broken" accepts the
\* connection, but its is_ready call raises or is not answered in time;
\* "notready" and "ready" answer is_ready with False and True
SlaveStates == {"down", "broken", "notready", "ready"}

\* what the slaves leave alone
notReadyVars ==
    <<candidates, voteVars, valVars, spawnVars, trigVars, wcands, clearVars, gatherVars,
      artifacts, destroyVars, waitVars, callVars, hostVars, nameVars, startVars, batchVars, vetoVars, memVars, localVars, roundVars>>

\* a slave starts up, gets ready, hangs or goes down
SlaveMoves ==
    {<<"down", "notready">>, <<"notready", "ready">>, <<"down", "broken">>,
     <<"notready", "broken">>, <<"ready", "down">>}

\* the try block of is_ready with "except: pass" in place of "except:
\* return False": a slave that cannot be asked is skipped
AfterAnswerSkipping(answer, last) ==
    IF answer = "notready" THEN "false"
    ELSE IF last THEN "true" ELSE "ask"

\* the try block of is_ready for one address: connect and is_ready raise
\* for a slave that is down or broken, and "except: return False"; a slave
\* that answers False gives "return False"; after the last one "return True"
AfterAnswer(answer, last) ==
    IF answer \in {"down", "broken", "notready"} THEN "false"
    ELSE IF last THEN "true" ELSE "ask"

\* is_ready up to the loop: the two checks of the master itself
IsReadyStart ==
    /\ ipc = "idle"
    /\ iseen' = <<>>
    /\ ipc' = IF ~own[1] THEN "false"
              ELSE IF ~own[2] THEN "false"
              ELSE IF NumWorkers = 0 THEN "true" ELSE "ask"
    /\ UNCHANGED <<sstat, own, notReadyVars>>

\* one round of "for addr in self.addrs"
IsReadyAsk ==
    /\ ipc = "ask"
    /\ LET w == Len(iseen) + 1 IN
          /\ iseen' = Append(iseen, sstat[w])
          /\ ipc' = AfterAnswer(sstat[w], w = NumWorkers)
    /\ UNCHANGED <<sstat, own, notReadyVars>>

\* a slave changes while is_ready is idle or under way
SlaveChange(w, st) ==
    /\ ipc \in {"idle", "ask"}
    /\ <<sstat[w], st>> \in SlaveMoves
    /\ sstat' = [sstat EXCEPT ![w] = st]
    /\ UNCHANGED <<own, ipc, iseen, notReadyVars>>

InitReady ==
    /\ sstat \in [Workers -> SlaveStates]
    /\ own \in BOOLEAN \X BOOLEAN
    /\ ipc = "idle"
    /\ iseen = <<>>
    /\ NoDestroy
    /\ nagents = [w \in Slaves |-> 0]
    /\ NoWait
    /\ NoCall
    /\ NoHost
    /\ NoAgent
    /\ NoStart
    /\ NoBatch
    /\ NoVeto
    /\ NoMemory
    /\ NoLocalCall
    /\ NoRound
    /\ NoSpawn
    /\ NoTrigger
    /\ NoArtifact
    /\ NoLocal
    /\ candidates = <<>>
    /\ votes = <<>>
    /\ NoVote
    /\ veto = [w \in Workers |-> {}]
    /\ NoValidation

NextReady ==
    \/ IsReadyStart
    \/ IsReadyAsk
    \/ \E w \in Workers, st \in SlaveStates : SlaveChange(w, st)

SpecReady == InitReady /\ [][NextReady]_vars

\* ------------------------------------------------------------ wait_slaves
\* what wait_slaves and the clock leave alone
notWaitVars ==
    <<candidates, voteVars, valVars, spawnVars, trigVars, wcands, clearVars, gatherVars,
      artifacts, destroyVars, sstat, own, ipc, iseen, callVars, hostVars, nameVars, startVars, batchVars, vetoVars, memVars, localVars, roundVars>>

\* the test of line 692 never true
ExpiredNever(elapsed, timeout) == FALSE

\* if time.time() - t > timeout
Expired(elapsed, timeout) == elapsed > timeout

\* the try block of wait_slaves for a slave in state st: connect raises for
\* a slave that is down; with check_ready the slave has to answer is_ready
\* with True, and a call that raises is passed over
FoundOnline(st, check_ready) ==
    /\ st # "down"
    /\ check_ready => st = "ready"

\* wait_slaves up to the loop
WaitSlavesStart(timeout, check_ready) ==
    /\ wpc = "idle"
    /\ wargs' = <<timeout, check_ready>>
    /\ online' = <<>>
    /\ wi' = 1
    /\ clock' = 0
    /\ wpc' = IF 0 < NumWorkers THEN "loop" ELSE "true"
    /\ UNCHANGED notWaitVars

\* one round of "for addr in self.addrs"; after the last address the
\* condition of the while loop is looked at again
WaitSlavesStep ==
    /\ wpc = "loop"
    /\ IF Expired(clock, wargs[1])
       THEN /\ wpc' = "false"
            /\ UNCHANGED <<online, wi>>
       ELSE /\ online' = IF wi \notin Range(online) /\ FoundOnline(sstat[wi], wargs[2])
                         THEN Append(online, wi) ELSE online
            /\ IF wi < NumWorkers
               THEN wi' = wi + 1 /\ UNCHANGED wpc
               ELSE /\ wi' = 1
                    /\ wpc' = IF Len(online') < NumWorkers THEN "loop" ELSE "true"
    /\ UNCHANGED <<wargs, clock, notWaitVars>>

\* a second passes
Tick ==
    /\ wpc = "loop"
    /\ clock < MaxClock
    /\ clock' = clock + 1
    /\ UNCHANGED <<wpc, wargs, online, wi, notWaitVars>>

InitWait ==
    /\ sstat \in [Workers -> SlaveStates]
    /\ own = <<TRUE, TRUE>>
    /\ ipc = "idle"
    /\ iseen = <<>>
    /\ NoWait
    /\ NoDestroy
    /\ nagents = [w \in Slaves |-> 0]
    /\ NoCall
    /\ NoHost
    /\ NoAgent
    /\ NoStart
    /\ NoBatch
    /\ NoVeto
    /\ NoMemory
    /\ NoLocalCall
    /\ NoRound
    /\ NoSpawn
    /\ NoTrigger
    /\ NoArtifact
    /\ NoLocal
    /\ candidates = <<>>
    /\ votes = <<>>
    /\ NoVote
    /\ veto = [w \in Workers |-> {}]
    /\ NoValidation

NextWait ==
    \/ \E timeout \in 0..MaxTimeout, check_ready \in BOOLEAN :
          WaitSlavesStart(timeout, check_ready)
    \/ WaitSlavesStep
    \/ Tick
    \/ \E w \in Workers, st \in SlaveStates : SlaveChange(w, st)

\* the loop of wait_slaves goes on and time passes; no slave has to change
SpecWait ==
    InitWait /\ [][NextWait]_vars /\ WF_vars(WaitSlavesStep) /\ WF_vars(Tick)

\* ------------------------------------------------- calls between processes
\* the operations that call a manager in another process
CallOps ==
    {"spawn", "trigger_all", "candidates", "validate_candidates", "get_votes",
     "clear_candidates", "stop", "add_candidate"}

\* what becomes of the called manager: "up" answers, "down" accepts no
\* connection, "silent" accepts the connection and never answers
TargetStates == {"up", "down", "silent"}

\* what a call leaves alone
notCallVars ==
    <<candidates, voteVars, valVars, spawnVars, trigVars, wcands, clearVars, gatherVars,
      artifacts, destroyVars, readyVars, waitVars, hostVars, nameVars, startVars, batchVars, vetoVars, memVars, localVars, roundVars>>

\* the timeout handed to connect: spawn (line 815), get_candidates (426) and
\* EnvManager.add_candidate (201) hand none, so connect tries once
ConnectTimeout(op) ==
    IF op \in {"spawn", "candidates", "add_candidate"} THEN 0 ELSE TIMEOUT

\* the answer of the remote call is awaited; EnvManager.add_candidate does
\* not await host_manager.add_candidate(artifact)
Awaited(op) == op # "add_candidate"

\* the coroutine of the call starts and connects
CallStart(op) ==
    /\ kpc = "idle"
    /\ kop' = op
    /\ kwait' = 0
    /\ kpc' = "connecting"
    /\ UNCHANGED <<ktarget, notCallVars>>

\* await self.env.connect(...) returns the proxy and the request goes out;
\* a call that is not awaited returns at once
Connected ==
    /\ kpc = "connecting"
    /\ ktarget # "down"
    /\ kpc' = IF Awaited(kop) THEN "awaiting" ELSE "returned"
    /\ UNCHANGED <<kop, ktarget, kwait, notCallVars>>

\* connect with a timeout tries again while the timeout has not passed
ConnectRetry ==
    /\ kpc = "connecting"
    /\ ktarget = "down"
    /\ kwait < ConnectTimeout(kop)
    /\ kwait' = kwait + 1
    /\ UNCHANGED <<kpc, kop, ktarget, notCallVars>>

\* connect raises: the error reaches the caller of the operation
ConnectFails ==
    /\ kpc = "connecting"
    /\ ktarget = "down"
    /\ kwait >= ConnectTimeout(kop)
    /\ kpc' = "failed"
    /\ UNCHANGED <<kop, ktarget, kwait, notCallVars>>

\* the answer comes
Answered ==
    /\ kpc = "awaiting"
    /\ ktarget = "up"
    /\ kpc' = "returned"
    /\ UNCHANGED <<kop, ktarget, kwait, notCallVars>>

\* no answer comes and the transport gives the awaiting coroutine an error
TransportTimeout ==
    /\ kpc = "awaiting"
    /\ ktarget = "silent"
    /\ kpc' = "failed"
    /\ UNCHANGED <<kop, ktarget, kwait, notCallVars>>

\* the next call, to a manager that behaves in some way
CallAgain(t) ==
    /\ kpc \in {"returned", "failed"}
    /\ ktarget' = t
    /\ kpc' = "idle"
    /\ UNCHANGED <<kop, kwait, notCallVars>>

InitCall ==
    /\ kpc = "idle"
    /\ kop = "none"
    /\ ktarget \in TargetStates
    /\ kwait = 0
    /\ NoWait
    /\ NoReady
    /\ NoDestroy
    /\ nagents = [w \in Slaves |-> 0]
    /\ NoHost
    /\ NoAgent
    /\ NoStart
    /\ NoBatch
    /\ NoVeto
    /\ NoMemory
    /\ NoLocalCall
    /\ NoRound
    /\ NoSpawn
    /\ NoTrigger
    /\ NoArtifact
    /\ NoLocal
    /\ candidates = <<>>
    /\ votes = <<>>
    /\ NoVote
    /\ veto = [w \in Workers |-> {}]
    /\ NoValidation

NextCall ==
    \/ \E op \in CallOps : CallStart(op)
    \/ Connected
    \/ ConnectRetry
    \/ ConnectFails
    \/ Answered
    \/ TransportTimeout
    \/ \E t \in TargetStates : CallAgain(t)

\* every step of a call is taken in the end: the transport is taken to give
\* an awaiting coroutine an error when no answer comes
SpecCall == InitCall /\ [][NextCall]_vars /\ WF_vars(NextCall)

\* --------------------------------------------------- host link and report
\* the addresses of managers a slave can be told to report to; the first is
\* self.manager.addr of the master
MasterAddr == "tcp://master:5555/0"
HostAddrs == {MasterAddr, "tcp://other:5555/0"}

\* the messages of report
Msgs == {"hello", "bye"}

\* what the host link and report leave alone
notHostVars ==
    <<candidates, voteVars, valVars, spawnVars, trigVars, wcands, clearVars, gatherVars,
      artifacts, destroyVars, readyVars, waitVars, callVars, nameVars, startVars, batchVars, vetoVars, memVars, localVars, roundVars>>

\* EnvManager.set_host_manager(addr) in slave w: self._host_manager = addr
SetHostManager(w, addr) ==
    /\ host_manager' = [host_manager EXCEPT ![w] = addr]
    /\ bound' = [bound EXCEPT ![w] = IF @ = "None" THEN addr ELSE @]
    /\ UNCHANGED <<hostUp, rcall, rres, delivered, notHostVars>>

\* MultiEnvironment.set_host_manager(addr), one task of set_host_managers:
\* the manager of slave w is told self.manager.addr
MasterSetHostManager(w) ==
    /\ MasterAddr \in hostUp
    /\ SetHostManager(w, MasterAddr)

\* a manager comes up at an address or goes down
HostChange(a) ==
    /\ hostUp' = IF a \in hostUp THEN hostUp \ {a} ELSE hostUp \cup {a}
    /\ UNCHANGED <<host_manager, bound, rcall, rres, delivered, notHostVars>>

\* what report hands to connect: self.host_manager, which is the exposed
\* method host_manager of the class (lines 75-80), not the address it
\* returns and not the attribute self._host_manager
ConnectArgument(hm) == "<bound method EnvManager.host_manager>"

\* connect gives a proxy when it is handed the address of a manager that
\* can be reached; anything else raises
Connects(arg, up) == arg \in up

\* EnvManager.handle(msg): pass
HandleResult(msg) == "None"

\* EnvManager.report(msg) in slave w: connect inside try / except, then
\* handle
Report(w, msg) ==
    /\ Len(delivered) < MaxReports
    /\ rcall' = <<msg, host_manager[w], host_manager[w] \in hostUp, Len(delivered)>>
    /\ IF Connects(ConnectArgument(host_manager[w]), hostUp)
       THEN /\ delivered' = Append(delivered, <<ConnectArgument(host_manager[w]), msg>>)
            /\ rres' = HandleResult(msg)
       ELSE /\ rres' = "ConnectionError"
            /\ UNCHANGED delivered
    /\ UNCHANGED <<host_manager, bound, hostUp, notHostVars>>

InitHost ==
    /\ NoHost
    /\ NoCall
    /\ NoWait
    /\ NoReady
    /\ NoDestroy
    /\ nagents = [w \in Slaves |-> 0]
    /\ NoAgent
    /\ NoStart
    /\ NoBatch
    /\ NoVeto
    /\ NoMemory
    /\ NoLocalCall
    /\ NoRound
    /\ NoSpawn
    /\ NoTrigger
    /\ NoArtifact
    /\ NoLocal
    /\ candidates = <<>>
    /\ votes = <<>>
    /\ NoVote
    /\ veto = [w \in Workers |-> {}]
    /\ NoValidation

NextHost ==
    \/ \E w \in Workers, addr \in HostAddrs : SetHostManager(w, addr)
    \/ \E w \in Workers : MasterSetHostManager(w)
    \/ \E a \in HostAddrs : HostChange(a)
    \/ \E w \in Workers, msg \in Msgs : Report(w, msg)

SpecHost == InitHost /\ [][NextHost]_vars

\* ------------------------------------------------------------ agent names
\* what the creation of an agent leaves alone
notNameVars ==
    <<candidates, voteVars, valVars, spawnVars, trigVars, wcands, clearVars, gatherVars,
      artifacts, destroyVars, readyVars, waitVars, callVars, hostVars, startVars, batchVars, vetoVars, memVars, localVars, roundVars>>

\* "A{}".format(n): the string "A<n>" is the pair <<"A", n>>; a name of
\* another form is <<name, 0>>
DefaultName(n) == <<"A", n>>

\* self.__name = None
NoName == <<"None", 0>>

\* the names spawn can be asked for
Names == {DefaultName(n) : n \in 1..MaxRegistered} \cup {<<"bob", 0>>}

\* self.env.get_agent(name) is not None: an agent of the environment has
\* the name
NameTaken(regs, name) == \E i \in DOMAIN regs : regs[i] = name

\* super().__init__(environment.container): the agent is registered in the
\* container and gets the next address; it has no name yet
Register(regs) == Append(regs, NoName)

\* CreativeAgent.__init__ with name a non-empty str
CreateNamed(name) ==
    /\ Len(registered) < MaxRegistered
    /\ sbefore' = registered
    /\ IF NameTaken(Register(registered), name)
       THEN /\ registered' = Register(registered)
            /\ sres' = "ValueError"
       ELSE /\ registered' = [Register(registered) EXCEPT ![Len(registered) + 1] = name]
            /\ sres' = "created"
    /\ UNCHANGED notNameVars

\* CreativeAgent.__init__ with name None: the name is made of the last
\* segment of the address
CreateDefault ==
    /\ Len(registered) < MaxRegistered
    /\ sbefore' = registered
    /\ registered' = [Register(registered) EXCEPT
                         ![Len(registered) + 1] = DefaultName(Len(registered) + 1)]
    /\ sres' = "created"
    /\ UNCHANGED notNameVars

InitNames ==
    /\ NoAgent
    /\ NoHost
    /\ NoCall
    /\ NoWait
    /\ NoReady
    /\ NoDestroy
    /\ nagents = [w \in Slaves |-> 0]
    /\ NoStart
    /\ NoBatch
    /\ NoVeto
    /\ NoMemory
    /\ NoLocalCall
    /\ NoRound
    /\ NoSpawn
    /\ NoTrigger
    /\ NoArtifact
    /\ NoLocal
    /\ candidates = <<>>
    /\ votes = <<>>
    /\ NoVote
    /\ veto = [w \in Workers |-> {}]
    /\ NoValidation

NextNames ==
    \/ \E name \in Names : CreateNamed(name)
    \/ CreateDefault

SpecNames == InitNames /\ [][NextNames]_vars

\* ------------------------------------------------------- start coroutine
\* what the start coroutine and the manager's stop leave alone
notStartVars ==
    <<candidates, voteVars, valVars, spawnVars, trigVars, wcands, clearVars, gatherVars,
      artifacts, destroyVars, readyVars, waitVars, callVars, hostVars, nameVars, batchVars, vetoVars, memVars, localVars, roundVars>>

\* a start that does not wait for the future
ResumesAtOnce(done) == TRUE

\* yield from manager.stop_received: the coroutine goes on when the future
\* has its result
Resumes(done) == done

\* manager = mgr_cls(env); env.manager = manager: from here on the manager
\* takes requests and start waits for stop_received
StartManager(w) ==
    /\ startpc[w] = "create"
    /\ startpc' = [startpc EXCEPT ![w] = "wait"]
    /\ UNCHANGED <<stopped, interrupted, destroyed, stopres>>
    /\ UNCHANGED notStartVars

\* EnvManager.stop is called: self.stop_received.set_result(True) is its
\* last step before the return; a future that has its result already
\* raises InvalidStateError
ManagerStop(w) ==
    /\ startpc[w] \in {"wait", "destroy"}
    /\ IF stopped[w]
       THEN /\ stopres' = [stopres EXCEPT ![w] = "InvalidStateError"]
            /\ UNCHANGED stopped
       ELSE /\ stopres' = [stopres EXCEPT ![w] = "returned"]
            /\ stopped' = [stopped EXCEPT ![w] = TRUE]
    /\ UNCHANGED <<startpc, interrupted, destroyed>>
    /\ UNCHANGED notStartVars

\* EnvManager.stop raises before it reaches set_result (save_info or the
\* close of an agent fails)
ManagerStopFails(w) ==
    /\ startpc[w] = "wait"
    /\ stopres' = [stopres EXCEPT ![w] = "error"]
    /\ UNCHANGED <<startpc, stopped, interrupted, destroyed>>
    /\ UNCHANGED notStartVars

\* the wait is over: the finally clause calls env.destroy
StartResume(w) ==
    /\ startpc[w] = "wait"
    /\ Resumes(stopped[w])
    /\ startpc' = [startpc EXCEPT ![w] = "destroy"]
    /\ destroyed' = [destroyed EXCEPT ![w] = @ + 1]
    /\ UNCHANGED <<stopped, interrupted, stopres>>
    /\ UNCHANGED notStartVars

\* KeyboardInterrupt in the try block: it is caught and logged, the finally
\* clause calls env.destroy; in the finally clause it ends the coroutine
KeyboardInterrupt(w) ==
    /\ startpc[w] \in {"wait", "destroy"}
    /\ interrupted' = [interrupted EXCEPT ![w] = TRUE]
    /\ IF startpc[w] = "wait"
       THEN /\ startpc' = [startpc EXCEPT ![w] = "destroy"]
            /\ destroyed' = [destroyed EXCEPT ![w] = @ + 1]
       ELSE /\ startpc' = [startpc EXCEPT ![w] = "raised"]
            /\ UNCHANGED destroyed
    /\ UNCHANGED <<stopped, stopres>>
    /\ UNCHANGED notStartVars

\* env.destroy returns and start with it
StartReturn(w) ==
    /\ startpc[w] = "destroy"
    /\ startpc' = [startpc EXCEPT ![w] = "done"]
    /\ UNCHANGED <<stopped, interrupted, destroyed, stopres>>
    /\ UNCHANGED notStartVars

\* env.destroy raises: start ends with its error
StartDestroyFails(w) ==
    /\ startpc[w] = "destroy"
    /\ startpc' = [startpc EXCEPT ![w] = "raised"]
    /\ UNCHANGED <<stopped, interrupted, destroyed, stopres>>
    /\ UNCHANGED notStartVars

\* every slave process has made its environment
InitStart ==
    /\ startpc = [w \in Workers |-> "create"]
    /\ stopped = [w \in Workers |-> FALSE]
    /\ interrupted = [w \in Workers |-> FALSE]
    /\ destroyed = [w \in Workers |-> 0]
    /\ stopres = [w \in Workers |-> "none"]
    /\ NoAgent
    /\ NoHost
    /\ NoCall
    /\ NoWait
    /\ NoReady
    /\ NoDestroy
    /\ nagents = [w \in Slaves |-> 0]
    /\ NoBatch
    /\ NoVeto
    /\ NoMemory
    /\ NoLocalCall
    /\ NoRound
    /\ NoSpawn
    /\ NoTrigger
    /\ NoArtifact
    /\ NoLocal
    /\ candidates = <<>>
    /\ votes = <<>>
    /\ NoVote
    /\ veto = [w \in Workers |-> {}]
    /\ NoValidation

NextStart ==
    \/ \E w \in Workers : StartManager(w)
    \/ \E w \in Workers : ManagerStop(w)
    \/ \E w \in Workers : ManagerStopFails(w)
    \/ \E w \in Workers : StartResume(w)
    \/ \E w \in Workers : KeyboardInterrupt(w)
    \/ \E w \in Workers : StartReturn(w)
    \/ \E w \in Workers : StartDestroyFails(w)

\* loop.run_until_complete(task) runs the coroutine of a slave whenever it
\* can go on
SpecStart ==
    /\ InitStart
    /\ [][NextStart]_vars
    /\ \A w \in Workers :
           WF_vars(StartManager(w) \/ StartResume(w) \/ StartReturn(w) \/ StartDestroyFails(w))

\* ---------------------------------------------------------------- spawn_n
\* what spawn_n and the creation of its agents leave alone
notBatchVars ==
    <<candidates, voteVars, valVars, spawnVars, trigVars, wcands, clearVars, gatherVars,
      artifacts, destroyVars, readyVars, waitVars, callVars, hostVars, startVars, vetoVars, memVars, localVars, roundVars>>

\* a loop that stops one round early
MoreToSpawnButLast(rets, n) == Len(rets) < n - 1

\* for _ in range(n): another round is to be run
MoreToSpawn(rets, n) == Len(rets) < n

\* the agents after cls(self.container, *args, **kwargs), for the name given
\* (NoName: none given)
AfterCreate(regs, name) ==
    IF name = NoName
    THEN [Register(regs) EXCEPT ![Len(regs) + 1] = DefaultName(Len(regs) + 1)]
    ELSE IF NameTaken(Register(regs), name)
         THEN Register(regs)
         ELSE [Register(regs) EXCEPT ![Len(regs) + 1] = name]

\* the constructor raised ValueError
CreateRaises(regs, name) == name # NoName /\ NameTaken(Register(regs), name)

\* MultiEnvManager.spawn_n: the connection to the slave's manager is made
\* and its spawn_n is called, one request for the batch
SpawnNCall(n, name) ==
    /\ bpc = "idle"
    /\ bpc' = "loop"
    /\ bargs' = <<n, name>>
    /\ brets' = <<>>
    /\ bbefore' = Len(registered)
    /\ breq' = breq + 1
    /\ UNCHANGED <<bforeign, nameVars>>
    /\ UNCHANGED notBatchVars

\* MultiEnvManager.spawn_n: self.env.connect(addr, timeout=TIMEOUT) raises
SpawnNConnectFails ==
    /\ bpc = "idle"
    /\ bpc' = "ConnectionError"
    /\ UNCHANGED <<bargs, brets, bbefore, bforeign, breq, nameVars>>
    /\ UNCHANGED notBatchVars

\* EnvManager.spawn_n: ret = await self.spawn(agent_cls, *args, **kwargs);
\* rets.append(ret)
SpawnNStep ==
    /\ bpc = "loop"
    /\ MoreToSpawn(brets, bargs[1])
    /\ Len(registered) < MaxRegistered
    /\ sbefore' = registered
    /\ registered' = AfterCreate(registered, bargs[2])
    /\ IF CreateRaises(registered, bargs[2])
       THEN /\ sres' = "ValueError"
            /\ bpc' = "ValueError"
            /\ UNCHANGED brets
       ELSE /\ sres' = "created"
            /\ brets' = Append(brets, Len(registered) + 1)
            /\ UNCHANGED bpc
    /\ UNCHANGED <<bargs, bbefore, bforeign, breq>>
    /\ UNCHANGED notBatchVars

\* EnvManager.spawn_n: return rets
SpawnNReturn ==
    /\ bpc = "loop"
    /\ ~MoreToSpawn(brets, bargs[1])
    /\ bpc' = "returned"
    /\ UNCHANGED <<bargs, brets, bbefore, bforeign, breq, nameVars>>
    /\ UNCHANGED notBatchVars

\* another request to the same manager spawns an agent while spawn_n waits
\* for self.spawn (a constructor that is a coroutine gives the loop away)
OtherSpawn ==
    /\ bpc = "loop"
    /\ Len(registered) < MaxRegistered
    /\ sbefore' = registered
    /\ registered' = AfterCreate(registered, NoName)
    /\ sres' = "created"
    /\ bforeign' = bforeign + 1
    /\ UNCHANGED <<bpc, bargs, brets, bbefore, breq>>
    /\ UNCHANGED notBatchVars

InitBatch ==
    /\ NoBatch
    /\ registered \in {<<>>, <<DefaultName(1)>>, <<<<"bob", 0>>>>, <<DefaultName(2)>>}
    /\ sres = "none"
    /\ sbefore = <<>>
    /\ NoStart
    /\ NoHost
    /\ NoCall
    /\ NoWait
    /\ NoReady
    /\ NoDestroy
    /\ nagents = [w \in Slaves |-> 0]
    /\ NoVeto
    /\ NoMemory
    /\ NoLocalCall
    /\ NoRound
    /\ NoSpawn
    /\ NoTrigger
    /\ NoArtifact
    /\ NoLocal
    /\ candidates = <<>>
    /\ votes = <<>>
    /\ NoVote
    /\ veto = [w \in Workers |-> {}]
    /\ NoValidation

NextBatch ==
    \/ \E n \in 0..MaxBatch, name \in Names \cup {NoName} : SpawnNCall(n, name)
    \/ SpawnNConnectFails
    \/ SpawnNStep
    \/ SpawnNReturn
    \/ OtherSpawn

SpecBatch == InitBatch /\ [][NextBatch]_vars

\* ------------------------------------------- SpiroAgent.validate_candidates
\* what an agent's validation leaves alone
notVetoVars ==
    <<candidates, voteVars, valVars, spawnVars, trigVars, wcands, clearVars, gatherVars,
      artifacts, destroyVars, readyVars, waitVars, callVars, hostVars, nameVars, startVars,
      batchVars, memVars, localVars, roundVars>>

\* self.name and the name of another agent
Me == "me"
Creators == {Me, "other"}
Evals == 0..MaxEval

\* validate_candidates was not called
NotAsked == <<0>>

\* a veto that also takes the candidates at the threshold
PassesAbove(ceval, threshold) == ceval > threshold

\* ceval >= self._novelty_threshold
Passes(ceval, threshold) == ceval >= threshold

\* for c in candidates: ..., from place i on; the state of the loop is
\* <<valid, besteval, bestcand>> (bestcand 0 for None)
RECURSIVE AgentValidLoop(_, _, _, _, _)
AgentValidLoop(cs, evs, threshold, i, st) ==
    IF i > Len(cs) THEN st
    ELSE IF cs[i] # Me
         THEN IF Passes(evs[i], threshold)
              THEN AgentValidLoop(cs, evs, threshold, i + 1,
                       IF evs[i] > st[2]
                       THEN <<Append(st[1], i), evs[i], i>>
                       ELSE <<Append(st[1], i), st[2], st[3]>>)
              ELSE AgentValidLoop(cs, evs, threshold, i + 1, st)
         ELSE AgentValidLoop(cs, evs, threshold, i + 1, <<Append(st[1], i), st[2], st[3]>>)

\* SpiroAgent.validate_candidates(candidates)
AgentValidate ==
    /\ avalid = NotAsked
    /\ LET st == AgentValidLoop(acands, aevals, aargs[1], 1, <<<<>>, 0, 0>>)
       IN /\ avalid' = st[1]
          /\ aspiro' = IF aargs[2] = "best" /\ st[3] # 0 /\ ~aargs[3] THEN st[3] ELSE aspiro
    /\ UNCHANGED <<acands, aevals, aargs>>
    /\ UNCHANGED notVetoVars

\* the lists of length n over S
ListsOfLen(S, n) == [1..n -> S]

InitVeto ==
    /\ \E n \in 0..MaxList :
           /\ acands \in ListsOfLen(Creators, n)
           /\ aevals \in ListsOfLen(Evals, n)
    /\ aargs \in Evals \X {"none", "best"} \X BOOLEAN
    /\ avalid = NotAsked
    /\ aspiro = 0
    /\ NoBatch
    /\ NoStart
    /\ NoAgent
    /\ NoHost
    /\ NoCall
    /\ NoWait
    /\ NoReady
    /\ NoDestroy
    /\ nagents = [w \in Slaves |-> 0]
    /\ NoMemory
    /\ NoLocalCall
    /\ NoRound
    /\ NoSpawn
    /\ NoTrigger
    /\ NoArtifact
    /\ NoLocal
    /\ candidates = <<>>
    /\ votes = <<>>
    /\ NoVote
    /\ veto = [w \in Workers |-> {}]
    /\ NoValidation

NextVeto == AgentValidate

SpecVeto == InitVeto /\ [][NextVeto]_vars

\* --------------------------------------------------------------- STMemory
\* what the short-term memory leaves alone
notMemVars ==
    <<candidates, voteVars, valVars, spawnVars, trigVars, wcands, clearVars, gatherVars,
      artifacts, destroyVars, readyVars, waitVars, callVars, hostVars, nameVars, startVars,
      batchVars, vetoVars, localVars, roundVars>>

Items == 1..NumItems

\* self.artifacts[:-1]
AllButLast(s) == SubSeq(s, 1, Len(s) - 1)

\* STMemory._add_artifact(artifact): the list afterwards
AddToMemory(arts, length, artifact) ==
    <<artifact>> \o (IF Len(arts) = length THEN AllButLast(arts) ELSE arts)

\* STMemory.learn(artifact)
Learn(a) ==
    /\ mem_calls < MaxLearns
    /\ mem_before' = mem_artifacts
    /\ mem_artifacts' = AddToMemory(mem_artifacts, mem_length, a)
    /\ mem_item' = a
    /\ mem_calls' = mem_calls + 1
    /\ UNCHANGED mem_length
    /\ UNCHANGED notMemVars

\* STMemory.train_cycle(artifact): self.learn(artifact)
TrainCycle(a) ==
    /\ mem_calls < MaxLearns
    /\ mem_before' = mem_artifacts
    /\ mem_artifacts' = AddToMemory(mem_artifacts, mem_length, a)
    /\ mem_item' = a
    /\ mem_calls' = mem_calls + 1
    /\ UNCHANGED mem_length
    /\ UNCHANGED notMemVars

\* STMemory(length)
InitMemory ==
    /\ mem_length \in 0..MaxLength
    /\ mem_artifacts = <<>>
    /\ mem_before = <<>>
    /\ mem_item = 0
    /\ mem_calls = 0
    /\ NoVeto
    /\ NoBatch
    /\ NoStart
    /\ NoAgent
    /\ NoHost
    /\ NoCall
    /\ NoWait
    /\ NoReady
    /\ NoDestroy
    /\ nagents = [w \in Slaves |-> 0]
    /\ NoLocalCall
    /\ NoRound
    /\ NoSpawn
    /\ NoTrigger
    /\ NoArtifact
    /\ NoLocal
    /\ candidates = <<>>
    /\ votes = <<>>
    /\ NoVote
    /\ veto = [w \in Workers |-> {}]
    /\ NoValidation

NextMemory ==
    \/ \E a \in Items : Learn(a)
    \/ \E a \in Items : TrainCycle(a)

SpecMemory == InitMemory /\ [][NextMemory]_vars

\* ------------------------------------- the slave's candidates in a request
\* what a request for the candidates of a slave leaves alone
notLocalVars ==
    <<candidates, voteVars, spawnVars, trigVars, clearVars, gatherVars,
      artifacts, destroyVars, readyVars, waitVars, callVars, hostVars, nameVars, startVars,
      batchVars, vetoVars, memVars, roundVars>>

\* Environment._gather_votes in a slave: the vote lists of its agents; the
\* one agent looked at votes each candidate alike, as EnvManager.vote does
LocalVotes(cl) == << [i \in DOMAIN cl |-> <<cl[i], 1>>] >>

\* EnvManager.validate_candidates(candidates) of slave w
ManagerValidate(w, cs) ==
    /\ lcall[1] = "none"
    /\ lcall' = <<"validate_candidates", w, cs>>
    /\ lbefore' = wcands[w]
    /\ wcands' = [wcands EXCEPT ![w] = LocalValid(ReplaceLocal(@, cs), veto[w])]
    /\ lret' = wcands'[w]
    /\ UNCHANGED valVars
    /\ UNCHANGED notLocalVars

\* EnvManager.get_votes(candidates) of slave w
ManagerGetVotes(w, cs) ==
    /\ lcall[1] = "none"
    /\ lcall' = <<"get_votes", w, cs>>
    /\ lbefore' = wcands[w]
    /\ wcands' = [wcands EXCEPT ![w] = ReplaceLocal(@, cs)]
    /\ lret' = LocalVotes(wcands'[w])
    /\ UNCHANGED valVars
    /\ UNCHANGED notLocalVars

\* the lists a manager can be passed; one request is looked at, for every
\* list the slave can hold before it
PassedLists == UNION {DistinctLists(ValCands, n) : n \in 0..NumGathered}

InitLocal ==
    /\ lcall = <<"none", 0, <<>>>>
    /\ lbefore = <<>>
    /\ lret = <<>>
    /\ wcands \in LocalHoldings
    /\ NoClear
    /\ NoGather
    /\ veto = [w \in Workers |-> {w}]
    /\ NoMemory
    /\ NoVeto
    /\ NoBatch
    /\ NoStart
    /\ NoAgent
    /\ NoHost
    /\ NoCall
    /\ NoWait
    /\ NoReady
    /\ NoDestroy
    /\ nagents = [w \in Slaves |-> 0]
    /\ NoRound
    /\ NoSpawn
    /\ NoTrigger
    /\ NoArtifact
    /\ candidates = <<>>
    /\ votes = <<>>
    /\ NoVote
    /\ NoValidation

NextLocal ==
    \/ \E w \in Workers, cs \in PassedLists : ManagerValidate(w, cs)
    \/ \E w \in Workers, cs \in PassedLists : ManagerGetVotes(w, cs)

SpecLocal == InitLocal /\ [][NextLocal]_vars

\* ----------------------------------------------------- vote_and_save_info
\* what the statements of vote_and_save_info between its calls leave alone
notRoundVars ==
    <<candidates, voteVars, valVars, spawnVars, trigVars, wcands, clearVars, gatherVars,
      artifacts, destroyVars, readyVars, waitVars, callVars, hostVars, nameVars, startVars,
      batchVars, vetoVars, memVars, localVars>>

\* self.get_agents(): MultiEnvironment.get_agents with addr=True, its
\* default, asks every manager for the addresses of its agents
ListedAgents == Flatten([w \in Slaves |-> [i \in 1..nagents[w] |-> AgentAddr(w, i)]])

\* votes = self._gather_votes() of the round: every manager answers
\* get_votes(cl) with one vote list for each of its agents, and the answers
\* are put together in the order of the addresses
RoundVotes(cl) == Flatten([w \in Slaves |-> [i \in 1..nagents[w] |-> LocalVotes(cl)[1]]])

\* vote_and_save_info(age) is called: self.age = age, and the event loop
\* is about to be started with gather_candidates()
RoundCall ==
    /\ rpc = "idle"
    /\ rpc' = "called"
    /\ rbefore' = artifacts
    /\ UNCHANGED rglobal
    /\ UNCHANGED notRoundVars

\* gather_candidates() of the round
RoundGatherStart == rpc = "called" /\ GatherStart

RoundGetCandidates == rpc = "called" /\ GetCandidates

RoundGatherFail == rpc = "called" /\ GatherFail

RoundGatherReturn == rpc = "called" /\ GatherReturn

\* self.suggested_cand.append(..); self.validate_candidates();
\* self.valid_cand.append(..): the statement in the middle makes a generator
\* and drops it
RoundValidate ==
    /\ rpc = "called"
    /\ gpc = "done"
    /\ ValidateCandidatesCall

\* artifacts = self.perform_voting(method=self.voting_method): the method is
\* 'mean' and accepted is left at 1.  get_votes has every manager replace
\* the candidate list of its slave with the list passed.
RoundVote ==
    /\ rpc = "called"
    /\ vpc = "returned"
    /\ method = "none"
    /\ method' = "mean"
    /\ accepted' = 1
    /\ asked' = IF GatherAsked(candidates) = {} THEN {} ELSE Slaves
    /\ wcands' = [w \in Slaves |-> IF w \in asked'
                                     THEN ReplaceLocal(wcands[w], candidates)
                                     ELSE wcands[w]]
    /\ votes' = IF asked' = {} THEN <<>> ELSE RoundVotes(candidates)
    /\ best' = Voting("mean", 1, candidates, votes', candidates)
    /\ rglobal' = candidates
    /\ rpc' = IF best'.status # "ok" THEN "vote raised"
              ELSE IF best'.value = <<>> THEN "clear" ELSE "add"
    /\ UNCHANGED <<candidates, valVars, spawnVars, trigVars, clearVars, gatherVars, artifacts>>
    /\ UNCHANGED <<destroyVars, readyVars, waitVars, callVars, hostVars, nameVars, startVars>>
    /\ UNCHANGED <<batchVars, vetoVars, memVars, localVars, rbefore>>

\* one turn of "for a,v in artifacts": a.accepted is set, self.add_artifact(a)
\* appends a to the registry, and "for agent in self.get_agents():
\* agent.domain_artifact_added(a)" follows.  get_agents() gives addresses,
\* which are strings: with an agent listed the call on the first of them
\* raises AttributeError and vote_and_save_info ends there.
RoundAddArtifact ==
    /\ rpc = "add"
    /\ LET i == Len(artifacts) - Len(rbefore) + 1
       IN  /\ artifacts' = ArtifactsAppend(artifacts, best.value[i][1])
           /\ rpc' = IF ListedAgents # <<>> THEN "raised"
                     ELSE IF i = Len(best.value) THEN "clear" ELSE "add"
    /\ UNCHANGED <<rbefore, rglobal>>
    /\ UNCHANGED <<candidates, voteVars, valVars, spawnVars, trigVars, wcands, clearVars, gatherVars>>
    /\ UNCHANGED <<destroyVars, readyVars, waitVars, callVars, hostVars, nameVars, startVars>>
    /\ UNCHANGED <<batchVars, vetoVars, memVars, localVars>>

\* self.clear_candidates() of the round
RoundClearStart == rpc = "clear" /\ cpc = "idle" /\ ClearCandidatesStart

RoundClearSend(w) == rpc = "clear" /\ ClearSend(w)

RoundSlaveClear(w) == rpc = "clear" /\ SlaveClear(w)

RoundClearFail(w) == rpc = "clear" /\ ClearFail(w)

RoundClearReturn == rpc = "clear" /\ ClearReturn

\* self.valid_candidates = [], and vote_and_save_info returns
RoundReturn ==
    /\ rpc = "clear"
    /\ cpc = "done"
    /\ rpc' = "done"
    /\ UNCHANGED <<rbefore, rglobal>>
    /\ UNCHANGED notRoundVars

\* a simulation step is over: the agents of the slaves have acted and hold
\* the candidates they made (a slave without an agent holds none), the
\* master holds what an earlier round left, and artifacts were published
InitRound ==
    /\ rpc = "idle"
    /\ rbefore = <<>>
    /\ rglobal = <<>>
    /\ candidates \in UNION {DistinctLists(ValCands, n) : n \in 0..1}
    /\ wcands \in LocalHoldings
    /\ nagents \in [Slaves -> {0, 1}]
    /\ \A w \in Slaves : wcands[w] # <<>> => nagents[w] > 0
    /\ artifacts \in {a \in ArtifactLists : Len(a) <= 1}
    /\ NoClear
    /\ NoGather
    /\ NoLocalCall
    /\ NoMemory
    /\ NoVeto
    /\ NoBatch
    /\ NoStart
    /\ NoAgent
    /\ NoHost
    /\ NoCall
    /\ NoWait
    /\ NoReady
    /\ NoDestroy
    /\ NoSpawn
    /\ NoTrigger
    /\ votes = <<>>
    /\ NoVote
    /\ veto = [w \in Workers |-> {}]
    /\ NoValidation

NextRound ==
    \/ RoundCall
    \/ RoundGatherStart
    \/ RoundGetCandidates
    \/ RoundGatherFail
    \/ RoundGatherReturn
    \/ RoundValidate
    \/ RoundVote
    \/ RoundAddArtifact
    \/ RoundClearStart
    \/ \E w \in Slaves : RoundClearSend(w)
    \/ \E w \in Slaves : RoundSlaveClear(w)
    \/ \E w \in Slaves : RoundClearFail(w)
    \/ RoundClearReturn
    \/ RoundReturn

SpecRound == InitRound /\ [][NextRound]_vars

\* ================================================================ claims
\* the candidates of a result, in order
CandsOf(value) == [i \in DOMAIN value |-> value[i][1]]

NoRepeat(s) == \A i, j \in DOMAIN s : i # j => s[i] # s[j]

\* the validation is over: the call has returned, or the generator has run
\* to its end
ValidationOver == vpc \in {"returned", "done"}

\* the candidates of G that no slave vetoes: G intersected with the answer
\* R_w of every slave w
Unvetoed(G) == {c \in G : \A w \in Workers : c \notin veto[w]}

\* C1: after validate_candidates() was called with the global candidate
\* set G, the global candidate set is G intersected with the answer of
\* every slave: a candidate stays exactly when no slave vetoed it.
C1_ValidateIntersects ==
    ValidationOver => Range(candidates) = Unvetoed(startSet)

\* C2: after validate_candidates() the global candidate set is a subset of
\* what it was when the validation started, also when a slave was sent, and
\* answered with, candidates pushed by add_candidate during the fan-out.
C2_ValidationNeverAdds ==
    ValidationOver => Range(candidates) \subseteq startSet

C2_Witness ==
    /\ vpc = "done"
    /\ \E w \in Workers : ~(Range(reply[w]) \subseteq startSet)
    /\ Range(candidates) # startSet

\* the scores the vote set holds for the candidate c, over all vote lists
SubmittedFor(c) ==
    LET mine == SelectSeq(Flatten(votes), LAMBDA v : v[1] = c)
    IN  [i \in DOMAIN mine |-> mine[i][2]]

AllEntries == Range(Flatten(votes))

\* C11: with no candidate, perform_voting returns the empty list for every
\* method and every accepted count, raises nothing and sends no get_votes
\* request to any manager.
C11_EmptyVoting ==
    (method # "none" /\ candidates = <<>>) =>
        /\ best.status = "ok"
        /\ best.value = <<>>
        /\ asked = {}

C11_Witness ==
    /\ candidates = <<>>
    /\ method = "least_worst"
    /\ accepted = MaxAccepted
    /\ best.status = "ok"

\* C3: for strict, complete ballots _vote_IRV ranks every candidate exactly
\* once, so perform_voting('IRV', k) returns min(k, number of candidates)
\* pairs, no candidate twice, all of them candidates.
C3_IRVPermutation ==
    method = "IRV" =>
        /\ best.status = "ok"
        /\ Len(best.value) = Min(accepted, Len(candidates))
        /\ NoRepeat(CandsOf(best.value))
        /\ Range(CandsOf(best.value)) \subseteq Range(candidates)

RotationVotes == <<Ballot(<<1, 2, 3>>), Ballot(<<2, 3, 1>>), Ballot(<<3, 1, 2>>)>>

\* C4: for the ballots [c1,c2,c3], [c2,c3,c1], [c3,c1,c2] IRV returns a
\* total order: the three candidates once each, with pairwise distinct
\* ranks falling from first to last, and it is the same order (c1, c2, c3)
\* in every run.
C4_RotationTotalOrder ==
    (method = "IRV" /\ candidates = <<1, 2, 3>> /\ votes = RotationVotes) =>
        /\ best.status = "ok"
        /\ Len(best.value) = Min(accepted, 3)
        /\ NoRepeat(CandsOf(best.value))
        /\ \A i, j \in DOMAIN best.value : i < j => best.value[i][2] > best.value[j][2]
        /\ accepted >= 3 => Range(CandsOf(best.value)) = {1, 2, 3}
        /\ CandsOf(best.value) = Take(<<1, 2, 3>>, accepted)

C4_Witness ==
    /\ method = "IRV"
    /\ candidates = <<1, 2, 3>>
    /\ votes = RotationVotes
    /\ accepted = 3
    /\ Len(best.value) = 3

\* C5: in mean voting the value reported for a candidate c that was scored
\* is the mean of the scores submitted for c, and of no other score.
C5_MeanOfOwnScores ==
    (method = "mean" /\ best.status = "ok") =>
        \A i \in DOMAIN best.value :
            LET sc == SubmittedFor(best.value[i][1])
            IN  sc # <<>> => FracEq(best.value[i][2], <<SumSeq(sc), Len(sc)>>)

\* C6: in mean voting a candidate that no agent scored is left out of the
\* ranking, and perform_voting returns normally.
C6_UnscoredExcluded ==
    (method = "mean" /\ \E c \in Range(candidates) : SubmittedFor(c) = <<>>) =>
        /\ best.status = "ok"
        /\ \A i \in DOMAIN best.value : SubmittedFor(best.value[i][1]) # <<>>

\* the place of the candidate c in the candidate list
PlaceOf(c) == CHOOSE i \in DOMAIN candidates : candidates[i] = c

\* C7: perform_voting('mean', k) returns min(k, number of candidates)
\* pairs, sorted by mean, highest first, candidates with equal means in the
\* order of the candidate list.
C7_MeanSortedTopK ==
    (method = "mean" /\ best.status = "ok") =>
        /\ Len(best.value) = Min(accepted, Len(candidates))
        /\ \A i, j \in DOMAIN best.value : i < j =>
              /\ ~FracGt(best.value[j][2], best.value[i][2])
              /\ FracEq(best.value[i][2], best.value[j][2]) =>
                    PlaceOf(best.value[i][1]) < PlaceOf(best.value[j][1])

\* every agent lists its votes best first
BestFirst == \A i \in DOMAIN votes : \A j \in DOMAIN votes[i] : votes[i][j][2] <= votes[i][1][2]

\* every agent lists its votes worst last
WorstLast ==
    \A i \in DOMAIN votes : \A j \in DOMAIN votes[i] :
        votes[i][j][2] >= votes[i][Len(votes[i])][2]

C10_RandomPick ==
    method = "random" =>
        /\ best.status = "ok"
        /\ Len(best.value) = Min(accepted, Len(candidates))
        /\ NoRepeat(CandsOf(best.value))
        /\ Range(CandsOf(best.value)) \subseteq Range(candidates)
        /\ \A i \in DOMAIN best.value : best.value[i][2] = 0

C10_Witness ==
    /\ method = "random"
    /\ Len(candidates) = 3
    /\ accepted = 2
    /\ Len(best.value) = 2
    /\ best.value[1][1] # candidates[1]

\* C12: from equal agent counts, after any number of spawn calls without an
\* address, each one over before the next starts, the agent counts of any
\* two slaves differ by at most 1.
C12_SpawnBalanced ==
    (~overlap /\ ~explicit) =>
        \A v, w \in Slaves : nagents[v] - nagents[w] <= 1

C12_Witness ==
    /\ ~overlap
    /\ ~explicit
    /\ nspawn = MaxSpawns
    /\ \A s \in SpawnCalls : spc[s] \in {"idle", "done"}
    /\ \E v, w \in Slaves : nagents[v] # nagents[w]

\* C13: a spawn call without an address asks every slave for its agents in
\* that call, and spawns the agent in the first slave of the address list
\* whose count is the smallest; when no other call is under way the counts
\* it compares are the slaves' counts of that moment.
C13_SpawnFirstMinimum ==
    \A s \in SpawnCalls :
        (spc[s] \in {"place", "done"} /\ seen[s] # <<>>) =>
            LET a == IF spc[s] = "done" THEN placed[s] ELSE saddr[s] IN
            /\ Len(seen[s]) = NumSlaves
            /\ a \in Slaves
            /\ \A i \in Slaves : seen[s][i] >= seen[s][a]
            /\ \A i \in 1..(a - 1) : seen[s][i] > seen[s][a]
            /\ (~overlap /\ spc[s] = "place") =>
                   \A i \in Slaves : seen[s][i] = nagents[i]

C13_Witness ==
    \E s \in SpawnCalls :
        /\ spc[s] = "done"
        /\ Len(seen[s]) = NumSlaves
        /\ placed[s] > 1
        /\ \E j \in Slaves : j > placed[s] /\ seen[s][j] = seen[s][placed[s]]

\* C14: trigger_all has made the request to every slave before it waits for
\* an answer, and what it returns is the slaves' result lists chained in the
\* order of the address list, whatever the order the answers came in.
C14_TriggerConcurrentOrdered ==
    /\ (tpc # "idle") => \A w \in Slaves : ttask[w] # "none"
    /\ (\E w \in Slaves : trep[w] # NoResult) => \A v \in Slaves : ttask[v] # "none"
    /\ (tpc = "done") => tresult = Flatten([w \in Slaves |-> trep[w]])

C14_Witness ==
    /\ tpc = "done"
    /\ arrived = [i \in 1..NumSlaves |-> NumSlaves + 1 - i]
    /\ \A w \in Slaves : trep[w] # <<>>

\* C15: trigger_all returns one result for every agent of every slave that
\* is not a manager, each from another agent address, and none from a
\* manager (agent 0 of a slave).
C15_TriggerOnePerAgent ==
    (tpc = "done") =>
        /\ Len(tresult) = SumSeq([w \in Slaves |-> nagents[w]])
        /\ NoRepeat(tresult)
        /\ Range(tresult) = {AgentAddr(w, i) : w \in Slaves, i \in 1..MaxAgents} \cap
                             {a \in Slaves \X (1..MaxAgents) : a[2] <= nagents[a[1]]}
        /\ \A w \in Slaves : AgentAddr(w, 0) \notin Range(tresult)

C15_Witness ==
    /\ tpc = "done"
    /\ \A w \in Slaves : nagents[w] = MaxAgents
    /\ Len(tresult) = NumSlaves * MaxAgents

\* C16: when the call to one slave fails during the fan-out, trigger_all
\* fails with that error and returns no result list, not even a partial one.
C16_TriggerFailFast ==
    (\E w \in Slaves : ttask[w] = "failed") =>
        /\ tpc = "failed"
        /\ tresult = NoResult
        /\ terr \in Slaves
        /\ ttask[terr] = "failed"

C16_Witness ==
    /\ tpc = "failed"
    /\ \E w \in Slaves : ttask[w] = "replied" /\ trep[w] # <<>>
    /\ Cardinality({w \in Slaves : ttask[w] = "failed"}) = 1
    /\ tresult = NoResult

\* C17: clear_candidates empties the master's own candidate list only after
\* the fan-out to the slaves is over: while the fan-out runs, and when it
\* has failed, the candidates of the moment of the call are still there.
C17_ClearsAfterFanOut ==
    (cpc \in {"fanout", "failed"}) => clearStart \subseteq Range(candidates)

\* C18: when clear_candidates is called twice in a row and no slave fails,
\* then after each call the master's candidate list and the candidate list
\* of every slave are empty.
C18_ClearTwiceEmpty ==
    (cpc = "done") =>
        /\ candidates = <<>>
        /\ \A w \in Slaves : wcands[w] = <<>>

\* C19: after gather_candidates in vote_and_save_info the master's
\* candidate list is the lists the slaves held when they were asked, one
\* after the other in the order of the address list: what the master held
\* before, or was pushed meanwhile, is not in it, and nothing of a slave's
\* list is missing.
C19_GatheredIsConcatenation ==
    (gpc = "done") =>
        /\ Len(gheld) = NumSlaves
        /\ candidates = Flatten(gheld)
        /\ \A w \in Slaves :
               /\ Len(gheld[w]) <= Len(wcands[w])
               /\ SubSeq(wcands[w], 1, Len(gheld[w])) = gheld[w]

C19_Witness ==
    /\ gpc = "done"
    /\ \E v, w \in Slaves : v < w /\ gheld[v] # <<>> /\ gheld[w] # <<>>
    /\ candidates = Flatten([w \in Slaves |-> wcands[w]])

\* C20: the artifact registry is append-only: whatever operation of the
\* master takes a step (add_artifact, add_artifacts, add_candidate,
\* validate_candidates, perform_voting, clear_candidates, trigger_all,
\* spawn), the registry does not get shorter and every artifact in it stays
\* at its position.
C20_RegistryAppendOnly ==
    [][/\ Len(artifacts') >= Len(artifacts)
       /\ \A i \in DOMAIN artifacts : artifacts'[i] = artifacts[i]]_vars

C20_Witness ==
    /\ Len(artifacts) = MaxArtifacts
    /\ artifacts[1] # artifacts[2]
    /\ cpc = "done"
    /\ nclears = MaxClears

\* the places of the step e in the shutdown log
Places(e) == {i \in DOMAIN dlog : dlog[i] = e}

\* C21: destroy terminates the process pool in every execution: when
\* destroy has ended, by returning or by raising because a slave could not
\* be stopped, the pool is terminated.
C21_PoolAlwaysTerminated ==
    (dpc \in {"done", "failed"}) => pool = "terminated"

\* C22: in destroy the master's save_info comes before every stop, the stop
\* of a slave is sent only after the stops of all slaves before it in the
\* address list have returned, the pool is terminated after all stops have
\* returned, the shutdown of the master's own environment is the last step,
\* and the list returned is the master's summary followed by the summaries
\* of the slaves in the order of the address list.
C22_DestroySequential ==
    /\ dlog # <<>> => dlog[1] = <<"save_info", 0, 0>>
    /\ \A w \in Slaves : \A i \in Places(<<"stop", w, 0>>) :
          \A v \in 1..(w - 1) : \E j \in Places(<<"returned", v, 0>>) : j < i
    /\ \A i \in Places(<<"terminate", 0, 0>>) :
          \A w \in Slaves : \E j \in Places(<<"returned", w, 0>>) : j < i
    /\ \A i \in Places(<<"shutdown", 0, 0>>) :
          /\ i = Len(dlog)
          /\ \E j \in Places(<<"terminate", 0, 0>>) : j < i
    /\ (dpc = "done") =>
          dresult = <<Summary(0)>> \o [w \in Slaves |-> Summary(w)]
    /\ (dpc # "done") => dresult = NoSummaries

C22_Witness ==
    /\ dpc = "done"
    /\ stop_received = Slaves
    /\ pool = "terminated"
    /\ \A w \in Slaves : nagents[w] > 0

\* C30: EnvManager.stop saves the summary of the environment first, then
\* closes every agent of the slave but the manager, and sets stop_received
\* only after the last of them is closed; what it returns is the summary
\* save_info gave.
C30_StopOrder ==
    \A w \in Slaves :
        /\ \A i \in 1..MaxAgents : \A k \in Places(<<"close", w, i>>) :
              /\ i <= nagents[w]
              /\ \E j \in Places(<<"save_info", w, 0>>) : j < k
        /\ Places(<<"close", w, 0>>) = {}
        /\ (w \in stop_received) <=> (Places(<<"stop_received", w, 0>>) # {})
        /\ \A k \in Places(<<"stop_received", w, 0>>) :
              /\ \E j \in Places(<<"save_info", w, 0>>) : j < k
              /\ \A i \in 1..nagents[w] : \E j \in Places(<<"close", w, i>>) : j < k
              /\ \A i \in 1..nagents[w] : \A j \in Places(<<"close", w, i>>) : j < k
        /\ (w \in DOMAIN drets) => drets[w] = Summary(w) /\ w \in stop_received

C30_Witness ==
    \E w \in Slaves :
        /\ nagents[w] = MaxAgents
        /\ w \in stop_received
        /\ w \in DOMAIN drets

\* C23: MultiEnvironment.is_ready returns True only if the master's
\* environment is ready, check_ready() is true and every slave, asked in
\* turn, has answered is_ready with True; a slave that cannot be reached or
\* whose call fails makes it return False, and it never raises.
C23_ReadyOnlyIfAll ==
    /\ ipc \in {"idle", "ask", "true", "false"}
    /\ (ipc = "true") =>
          /\ own = <<TRUE, TRUE>>
          /\ Len(iseen) = NumWorkers
          /\ \A w \in Workers : iseen[w] = "ready"
    /\ (\E i \in DOMAIN iseen : iseen[i] \in {"down", "broken"}) => ipc = "false"

C23_Witness ==
    /\ ipc = "false"
    /\ own = <<TRUE, TRUE>>
    /\ Len(iseen) = NumWorkers
    /\ iseen[NumWorkers] = "down"

\* C24: wait_slaves returns True only when every slave is in its list
\* online, and a slave gets there only when it was found connectable (and,
\* with check_ready, answered is_ready with True); a failed connection is
\* tried again, not raised; False is returned only after the timeout has
\* passed; and every call ends, with False if a slave never gets
\* connectable.
C24_WaitSlaves ==
    /\ [](wpc \in {"idle", "loop", "true", "false"})
    /\ []((wpc = "true") => Range(online) = Workers)
    /\ []((wpc = "false") => clock > wargs[1])
    /\ [][online' # online =>
            \E w \in Workers :
                /\ w \notin Range(online)
                /\ online' = Append(online, w)
                /\ sstat[w] # "down"
                /\ wargs[2] => sstat[w] = "ready"]_vars
    /\ (wpc = "loop") ~> (wpc \in {"true", "false"})
    /\ \A w \in Workers : [](sstat[w] = "down") => <>(wpc \in {"idle", "false"})

C24_Witness ==
    /\ wpc = "false"
    /\ online # <<>>
    /\ \E w \in Workers : sstat[w] = "down" /\ w \notin Range(online)

\* C25: every call to another process ends, and when the called manager
\* never answers (it accepts no connection, or accepts it and stays silent)
\* the call ends with an error for its caller, not with a return.
C25_CallsTimeOut ==
    /\ []((kpc = "returned") => ktarget = "up")
    /\ (kpc \in {"connecting", "awaiting"}) ~> (kpc \in {"returned", "failed"})

\* C26: the host link of a slave manager is bound at most once: after the
\* first set_host_manager, host_manager() keeps returning the address set
\* then, whatever is called later.
C26_HostBoundOnce ==
    \A w \in Workers : (bound[w] # "None") => host_manager[w] = bound[w]

\* C27: report(msg) returns the result of the host manager's handle(msg)
\* when the host can be reached, and then the message has reached that
\* manager; when the host cannot be reached or no host is set it fails with
\* a connection error and the message reaches no manager.
C27_ReportReachesHost ==
    (rres # "none") =>
        IF rcall[3]
        THEN /\ rres = HandleResult(rcall[1])
             /\ delivered = SubSeq(delivered, 1, rcall[4]) \o << <<rcall[2], rcall[1]>> >>
        ELSE /\ rres = "ConnectionError"
             /\ Len(delivered) = rcall[4]

\* C28: a spawn that asks for a name an agent of the environment has is
\* rejected and changes nothing: the agents registered in the environment,
\* and so their number, are after it what they were before.
C28_DuplicateNameNoChange ==
    (sres = "ValueError") => registered = sbefore

\* C29: no two agents of an environment have the same name, whether the
\* names were given or made from the addresses.
C29_NamesUnique ==
    \A i, j \in DOMAIN registered :
        (i # j /\ registered[i] # NoName) => registered[i] # registered[j]

\* C31: the start coroutine of a slave ends only after its manager's stop has
\* been received or a KeyboardInterrupt was raised; once stop has been
\* received, the coroutine calls env.destroy, exactly once, and then ends.
C31_StartUntilStop ==
    /\ [](\A w \in Workers :
            /\ startpc[w] \in {"done", "raised"} => (stopped[w] \/ interrupted[w])
            /\ destroyed[w] \in {0, 1}
            /\ (destroyed[w] = 1) => (stopped[w] \/ interrupted[w])
            /\ startpc[w] \in {"destroy", "done", "raised"} => destroyed[w] = 1)
    /\ \A w \in Workers :
           stopped[w] ~> (startpc[w] \in {"done", "raised"} /\ destroyed[w] = 1)

C31_Witness ==
    /\ startpc[1] = "done"
    /\ stopped[1]
    /\ ~interrupted[1]
    /\ destroyed[1] = 1
    /\ startpc[2] = "wait"

\* C32: a spawn_n call that succeeds was one request of the caller; it
\* returns exactly n addresses in spawn order, the n agents are agents of the
\* manager's environment, and the call has added exactly n agents to it.
C32_SpawnNBatch ==
    (bpc = "returned") =>
        /\ breq = 1
        /\ Len(brets) = bargs[1]
        /\ \A i \in DOMAIN brets :
               /\ brets[i] \in DOMAIN registered
               /\ brets[i] > bbefore
               /\ registered[brets[i]] # NoName
        /\ \A i, j \in DOMAIN brets : i < j => brets[i] < brets[j]
        /\ Len(registered) = bbefore + bargs[1] + bforeign

C32_Witness ==
    /\ bpc = "returned"
    /\ bargs[1] = 2
    /\ bbefore = 1
    /\ bforeign = 0
    /\ Len(registered) = 3

\* C33: an agent's validate_candidates returns, in input order, exactly the
\* candidates it created itself or evaluates at or above its threshold: the
\* result is a sub-list of the input, an own candidate is never removed, a
\* candidate of another creator evaluated below the threshold is removed.
C33_AgentVeto ==
    (avalid # NotAsked) =>
        /\ \A k \in DOMAIN avalid : avalid[k] \in DOMAIN acands
        /\ \A k, l \in DOMAIN avalid : k < l => avalid[k] < avalid[l]
        /\ \A i \in DOMAIN acands :
               (\E k \in DOMAIN avalid : avalid[k] = i)
                   <=> (acands[i] = Me \/ aevals[i] >= aargs[1])

C33_Witness ==
    /\ acands = <<"other", Me, "other">>
    /\ aevals = <<1, 0, 0>>
    /\ aargs[1] = 1
    /\ avalid = <<1, 2>>

\* C34: after any sequence of learn/train_cycle calls an STMemory of
\* capacity length holds at most length items, the item learned last is at
\* index 0, and a new item learned into a full memory evicts exactly the
\* oldest one.
C34_MemoryBounded ==
    /\ Len(mem_artifacts) <= mem_length
    /\ (mem_calls > 0) =>
           /\ mem_artifacts # <<>>
           /\ mem_artifacts[1] = mem_item
           /\ (Len(mem_before) = mem_length) =>
                  mem_artifacts = <<mem_item>> \o SubSeq(mem_before, 1, mem_length - 1)
           /\ (Len(mem_before) < mem_length) =>
                  mem_artifacts = <<mem_item>> \o mem_before

\* the ballots of the vote set that rank c first
FirstChoices(c) == {i \in DOMAIN votes : votes[i][1][1] = c}

\* C35: a candidate ranked first on a strict majority of the ballots (strict,
\* complete rankings) is the first element of the IRV result.
C35_MajorityWins ==
    (method = "IRV") =>
        \A c \in Cands :
            (2 * Cardinality(FirstChoices(c)) > Len(votes)) =>
                /\ best.status = "ok"
                /\ best.value # <<>>
                /\ best.value[1][1] = c

C35_Witness ==
    /\ method = "IRV"
    /\ Len(candidates) = 3
    /\ Len(votes) = 3
    /\ Cardinality(FirstChoices(2)) = 2
    /\ Cardinality(FirstChoices(1)) = 1
    /\ best.value[1][1] = 2

\* C36: for ballots that are strict, complete rankings the elimination loop
\* of _vote_IRV ends, without an error, after at most (number of candidates
\* - 1) rounds.
C36_IRVTerminates ==
    (method = "IRV") =>
        /\ best.status = "ok"
        /\ best.iters <= Len(candidates) - 1

C36_Witness ==
    /\ method = "IRV"
    /\ best.status = "ok"
    /\ Len(candidates) = 3
    /\ best.iters = 2

\* C37: perform_voting('mean', k) returns at most min(k, number of
\* candidates) pairs and no candidate more than once, also when two
\* candidates have the same string form.
C37_MeanAtMostK ==
    (method = "mean" /\ best.status = "ok") =>
        /\ Len(best.value) <= Min(accepted, Len(candidates))
        /\ NoRepeat(CandsOf(best.value))

\* C38: a call of perform_voting, for every method and every accepted count,
\* leaves the master's candidate list (contents and order) and its artifact
\* registry as they were; the registry changes only in a step of
\* add_artifact or add_artifacts.
C38_VotingFrame ==
    [][/\ (method' # method) => (candidates' = candidates /\ artifacts' = artifacts)
       /\ (artifacts' # artifacts) => (method' = method /\ best' = best)]_vars

C38_Witness ==
    /\ method = "random"
    /\ best.status = "ok"
    /\ Len(candidates) = 3
    /\ Len(best.value) = 2
    /\ best.value[1][1] = candidates[3]
    /\ artifacts = <<1>>

\* C39: EnvManager.validate_candidates(cs) and EnvManager.get_votes(cs)
\* replace the slave's candidate list with cs before the local agents are
\* asked: a candidate the slave held and that is not in cs is not in its
\* list after the call, and the list holds candidates of cs only.
C39_LocalReplaced ==
    (lcall[1] # "none") =>
        LET w == lcall[2]
            cs == lcall[3]
        IN  /\ \A c \in Range(lbefore) \ Range(cs) : c \notin Range(wcands[w])
            /\ Range(wcands[w]) \subseteq Range(cs)
            /\ (lcall[1] = "get_votes") => wcands[w] = cs

C39_Witness ==
    /\ lcall = <<"get_votes", 1, <<2>>>>
    /\ lbefore = <<1>>
    /\ wcands[1] = <<2>>

====
